---- MODULE Spec2Model ----
(***************************************************************************)
(* Model of colabutils: the connector registry and the pipeline functions *)
(* of datafetch/pipes.py, the connector classes of datafetch/core.py, and  *)
(* the pure helpers (range parsing, pre-cleansing, schema coercion, the    *)
(* document-library search).                                               *)
(***************************************************************************)
EXTENDS Integers, Sequences, FiniteSets, TLC

\* ------------------------------------------------------------------ bounds
\* Objects (connectors and engines) the heap may hold.
MaxObjects == 3
\* Largest value query_counter may reach on one connector.
MaxQueries == 2
\* Calls (of a pipeline function, a constructor or a method) in one session.
MaxCalls == 2

VARIABLES
    persistent,   \* Connectors.persistent
    slots,        \* the registry slots of class Connectors
    heap,         \* objects by identity: heap[id] is the object with id
    wh,           \* the warehouse as the client sees it
    last,         \* record of the call that ended last
    prev,         \* brief record of the call before it
    calls,        \* calls ended so far
    tab_parts,    \* the column letters and row digits a range string is written from
    tab_range,    \* get_table_parameters: the argument
    table_parameters,  \* get_table_parameters: what the call gave
    pc_df,        \* pre_cleansing: the table it is first applied to
    pc_once,      \* pre_cleansing(pc_df)
    pc_twice,     \* pre_cleansing(pre_cleansing(pc_df))
    ss_df,        \* set_schema_pd_df: the dataframe, each column by its content
    ss_schema_list,    \* set_schema_pd_df: the schema list
    ss_returned,  \* set_schema_pd_df: what the call gave
    ff_tree,      \* find_file: the items of the document library
    ff_stack,     \* find_file: the frames of the calls in progress
    ff_listed,    \* find_file: children requests sent, by folder
    ff_unanswered,     \* find_file: the folders whose request raised
    ff_ret,       \* find_file: the value a finished inner call hands back
    ff_result,    \* find_file: what the outermost call gave
    dl,           \* download_file: where the call is and how it ended
    se_path,      \* SQLiteConnection: the file_path given to the constructor
    se_file_path, \* SQLiteConnection: self.file_path
    se_engine,    \* SQLiteConnection: the URL self.engine was built from
    se_successes, \* SQLiteConnection: create_engine calls that returned
    se_calls,     \* SQLiteConnection: create_engine calls made
    ma,           \* manual_authentication: the connector, the login subprocess
                  \* and the statement the call is at
    ma_log,       \* manual_authentication: the steps taken, in order
    va_given,     \* vault_authentication: the three arguments
    va_typed,     \* vault_authentication: what the operator types at each prompt
    va_passed,    \* vault_authentication: what get_vault_credentials is given
    lp_path,      \* load_pandas_dataframe: the joined path
    lp_loaded,    \* load_pandas_dataframe: the reader called and the path it got
    ld_worksheets,     \* IngestExcelTables: self.worksheets
    ld_loaded_dfs,     \* IngestExcelTables: self.loaded_dfs
    ld_before,    \* IngestExcelTables: self.loaded_dfs when the last call began
    ld_outcome,   \* IngestExcelTables: how the last load_dfs ended
    ld_returns,   \* IngestExcelTables: load_dfs calls that returned
    ld_raises,    \* IngestExcelTables: load_dfs calls that raised
    uq_args,      \* update_specific_value_from_column_on_table: the arguments
    uq_query      \* update_specific_value_from_column_on_table: update_query

registryVars == <<persistent, slots, heap, wh, last, prev, calls>>
rangeVars == <<tab_parts, tab_range, table_parameters>>
cleansingVars == <<pc_df, pc_once, pc_twice>>
schemaVars == <<ss_df, ss_schema_list, ss_returned>>

findVars == <<ff_tree, ff_stack, ff_listed, ff_unanswered, ff_ret, ff_result, dl>>

engineVars == <<se_path, se_file_path, se_engine, se_successes, se_calls>>

authVars == <<ma, ma_log>>
vaultVars == <<va_given, va_typed, va_passed>>
loadVars == <<lp_path, lp_loaded>>
\* The variables of the loaders and builders, each checked by itself.
sheetVars == <<ld_worksheets, ld_loaded_dfs, ld_before, ld_outcome, ld_returns,
               ld_raises>>
queryVars == <<uq_args, uq_query>>
helperVars == <<loadVars, sheetVars, queryVars>>

\* The variables of the specifications after the registry's, by the
\* specification that leaves them alone.
exceptAuth == <<registryVars, rangeVars, cleansingVars, schemaVars, findVars,
                engineVars, vaultVars, helperVars>>
exceptVault == <<registryVars, rangeVars, cleansingVars, schemaVars, findVars,
                 engineVars, authVars, helperVars>>
exceptHelper == <<registryVars, rangeVars, cleansingVars, schemaVars, findVars,
                  engineVars, authVars, vaultVars>>

vars == <<registryVars, rangeVars, cleansingVars, schemaVars, findVars,
          engineVars, authVars, vaultVars, helperVars>>

\* ------------------------------------------------------------ the registry
SlotNames == {"google_drive_connector", "sqlserver_connector",
              "sqlite_connector", "gcp_connector"}

\* A slot's value: Unset (the class attribute does not exist), a reference
\* to a heap object, a DataFrame (a query result) or None.
Unset == [kind |-> "unset", id |-> 0]
DataFrame == [kind |-> "DataFrame", id |-> 0]
NoneValue == [kind |-> "None", id |-> 0]
Ref(id) == [kind |-> "object", id |-> id]

SlotClass(s) ==
    CASE s = "google_drive_connector" -> "MountGoogleDrive"
      [] s = "sqlserver_connector" -> "SQLServerConnection"
      [] s = "sqlite_connector" -> "SQLiteConnection"
      [] s = "gcp_connector" -> "GCPBigQueryConnection"

ViewIds == {"v1", "v2"}

\* An object as first constructed; each class uses the fields it has.
\*   engine: SQLiteConnection.engine (0 is None, else the engine's id)
\*   project, dataset: whether the attribute was ever assigned
\*   bqclient, bqstorageclient: whether the attribute was ever assigned
\*   attrs: the df_query{N} / df_table{N} / df_view{N} attributes stored
NewObj(cls) ==
    [cls |-> cls, engine |-> 0, query_counter |-> 0, attrs |-> {},
     project |-> FALSE, dataset |-> FALSE, already_authenticated |-> FALSE,
     bqclient |-> FALSE, bqstorageclient |-> FALSE]

nextId == Len(heap) + 1
CanAllocate(n) == Len(heap) + n <= MaxObjects

IdsOf(cls) == {i \in 1..Len(heap) : heap[i].cls = cls}

\* The record a call leaves in `last`.
NoCall ==
    [fn |-> "none", action |-> "none", outcome |-> "none", exc |-> "none",
     obj |-> 0, built |-> 0, persistent |-> TRUE, engine |-> 0,
     n0 |-> 0, stored |-> "none", buffer |-> FALSE, stmt |-> FALSE,
     queries |-> 0, creates |-> 0, mounts |-> 0, view |-> "none",
     existed |-> FALSE, fail |-> "none", inserted |-> FALSE, errors |-> <<>>,
     ret |-> "none"]

\* The actions each pipeline function dispatches to a connector.
Served ==
    [mount_storage_system |-> {"google"},
     upload_to_or_download_file_from_colab |-> {"upload", "download"},
     manipulate_sqlite_db |-> {"fetch_table", "update_table"},
     bigquery_pipeline |->
        {"connect", "run_sql_query", "get_full_table",
         "write_data_on_bigquery_table", "create_new_view",
         "delete_specific_values_from_column_on_table",
         "update_specific_value_from_column_on_table",
         "update_entire_column_from_table",
         "update_value_when_finding_str_or_substring_on_another_column",
         "update_value_when_finding_numeric_value_on_another_column"},
     sqlserver_pipeline |->
        {"connect", "get_db_schema", "run_sql_query", "get_full_table",
         "query_specific_tag_ip21sqlserver"}]

\* A call that returned normally from an action it dispatched.
Successful(r) ==
    /\ r.fn \in DOMAIN Served
    /\ r.action \in Served[r.fn]
    /\ r.outcome = "ok"

\* What the next call's record is compared with: the connector and the
\* engine a successful call used.
Brief(r) ==
    IF Successful(r)
    THEN [fn |-> r.fn, successful |-> TRUE, obj |-> r.obj, built |-> r.built,
          persistent |-> r.persistent, engine |-> r.engine]
    ELSE [fn |-> "none", successful |-> FALSE, obj |-> 0, built |-> 0,
          persistent |-> TRUE, engine |-> 0]

\* The outcome of a connector method: the connector after the call and what
\* the call did.
Result(c, outcome, exc) ==
    [conn |-> c, outcome |-> outcome, exc |-> exc, ret |-> "none",
     n0 |-> c.query_counter, stored |-> "none", buffer |-> FALSE,
     stmt |-> FALSE, queries |-> 0, creates |-> 0, view_created |-> "none",
     existed |-> FALSE, engine |-> 0, new_engine |-> FALSE, mounts |-> 0,
     inserted |-> FALSE, errors |-> <<>>]

Raise(c, exc) == Result(c, "raise", exc)

\* ------------------------------------------- GCPBigQueryConnection (core.py)
\* __init__: self.project and self.dataset are assigned only from the prompt,
\* that is only when the argument is blank; the dataset prompt's text reads
\* self.project.
GCPBigQueryConnection_init(project_blank, dataset_blank, already_authenticated) ==
    LET c0 == NewObj("GCPBigQueryConnection")
        c1 == IF project_blank THEN [c0 EXCEPT !.project = TRUE] ELSE c0
    IN  IF dataset_blank /\ ~c1.project
        THEN Raise(c1, "AttributeError")
        ELSE Result([c1 EXCEPT !.dataset = dataset_blank,
                               !.already_authenticated = already_authenticated],
                    "ok", "none")

AuthFailPoints == {"none", "default", "Client", "BigQueryReadClient"}

\* manual_authentication: default credentials first; if any step of that
\* fails, the gcloud login subprocess (no effect on the connector) and one
\* more bigquery.Client(project = self.project).
manual_authentication(c, fail, retry_ok) ==
    LET tried ==
            CASE fail = "none" ->
                    [c EXCEPT !.project = TRUE, !.bqclient = TRUE,
                              !.bqstorageclient = TRUE]
              [] fail = "default" -> c
              [] fail = "Client" -> [c EXCEPT !.project = TRUE]
              [] fail = "BigQueryReadClient" ->
                    [c EXCEPT !.project = TRUE, !.bqclient = TRUE]
    IN  IF fail = "none" THEN Result(tried, "ok", "none")
        ELSE IF tried.project /\ retry_ok
             THEN Result([tried EXCEPT !.bqclient = TRUE], "ok", "none")
             ELSE Raise(tried, "InvalidInputsError")

\* vault_authentication: fail = "default" stands for get_vault_credentials
\* failing.
vault_authentication(c, fail) ==
    IF fail = "default" THEN Raise(c, "Exception")
    ELSE IF ~c.project THEN Raise(c, "AttributeError")
    ELSE IF fail = "Client" THEN Raise(c, "Exception")
    ELSE IF fail = "BigQueryReadClient"
         THEN Raise([c EXCEPT !.bqclient = TRUE], "Exception")
         ELSE Result([c EXCEPT !.bqclient = TRUE, !.bqstorageclient = TRUE],
                     "ok", "none")

AuthMethods == {"manual", "vault", "other"}

\* authenticate: the already_authenticated branch names `bigquery`, which is
\* bound neither in the method nor in the module.
authenticate(c, authentication_method, fail, retry_ok) ==
    IF c.already_authenticated THEN Raise(c, "NameError")
    ELSE IF authentication_method = "manual"
         THEN manual_authentication(c, fail, retry_ok)
    ELSE IF authentication_method = "vault"
         THEN vault_authentication(c, fail)
    ELSE Result(c, "ok", "none")

\* table_exists(self, table_id): called with args, the positional arguments
\* after self.
table_exists(c, args, lookup_ok) ==
    IF Len(args) # 1 THEN "TypeError"
    ELSE IF lookup_ok /\ args[1] \in wh.views THEN "True"
    ELSE "False"

QueryFailPoints == {"none", "query", "to_dataframe", "to_csv"}

\* StoreAndCount, with the counter left as it was.
StoreAndCount_no_increment(c, r, kind, fail) ==
    LET N == c.query_counter
        stored == [c EXCEPT !.attrs = @ \cup {<<kind, N>>}]
        rs == [r EXCEPT !.stored = kind]
    IN  IF fail = "to_csv"
        THEN [rs EXCEPT !.conn = stored, !.outcome = "raise", !.exc = "Exception"]
        ELSE [rs EXCEPT !.conn = stored,
                        !.outcome = "ok", !.exc = "none", !.ret = "df"]

\* The tail shared by every query method: the result is stored under
\* <kind>{N}, optionally exported, and the counter becomes N + 1.
StoreAndCount(c, r, kind, fail) ==
    LET N == c.query_counter
        stored == [c EXCEPT !.attrs = @ \cup {<<kind, N>>}]
        rs == [r EXCEPT !.stored = kind]
    IN  IF fail = "to_csv"
        THEN [rs EXCEPT !.conn = stored, !.outcome = "raise", !.exc = "Exception"]
        ELSE [rs EXCEPT !.conn = [stored EXCEPT !.query_counter = N + 1],
                        !.outcome = "ok", !.exc = "none", !.ret = "df"]

GCPBigQueryConnection_run_sql_query(c, fail) ==
    IF ~c.bqclient THEN Raise(c, "AttributeError")
    ELSE LET r == [Result(c, "ok", "none") EXCEPT !.queries = 1]
         IN  IF fail \in {"query", "to_dataframe"}
             THEN [r EXCEPT !.outcome = "raise", !.exc = "Exception"]
             ELSE StoreAndCount(c, r, "df_query", fail)

GCPBigQueryConnection_get_full_table(c, fail) ==
    IF ~c.project \/ ~c.dataset \/ ~c.bqclient THEN Raise(c, "AttributeError")
    ELSE LET r == [Result(c, "ok", "none") EXCEPT !.queries = 1]
         IN  IF fail \in {"query", "to_dataframe"}
             THEN [r EXCEPT !.outcome = "raise", !.exc = "Exception"]
             ELSE StoreAndCount(c, r, "df_table", fail)

\* errors: what insert_rows_from_dataframe returns, one entry per chunk of
\* rows, 0 for an empty list of row errors and 1 for a non-empty one.
MaxChunks == 2
ErrorLists == UNION {[1..n -> {0, 1}] : n \in 0..MaxChunks}

write_data_on_bigquery_table(c, lookup_ok, errors) ==
    IF ~c.bqclient \/ ~c.dataset THEN Raise(c, "AttributeError")
    ELSE IF ~lookup_ok THEN Raise(c, "Exception")
    ELSE LET r == [Result(c, "ok", "none") EXCEPT !.inserted = TRUE,
                                                  !.errors = errors]
         IN  IF errors # <<0>>
             THEN [r EXCEPT !.outcome = "raise", !.exc = "RuntimeError"]
             ELSE IF ~c.project
             THEN [r EXCEPT !.outcome = "raise", !.exc = "AttributeError"]
             ELSE [r EXCEPT !.ret = "self"]

DmlFailPoints == {"none", "get_table", "query", "to_dataframe", "to_csv"}

\* GuardedStatement, with the statement submitted whatever the table's
\* streaming buffer holds.
GuardedStatement_unguarded(c, streaming_buffer, fail) ==
    IF ~c.project \/ ~c.dataset \/ ~c.bqclient THEN Raise(c, "AttributeError")
    ELSE IF fail = "get_table" THEN Raise(c, "Exception")
    ELSE LET r == [Result(c, "ok", "none") EXCEPT !.buffer = streaming_buffer,
                                                  !.stmt = TRUE]
         IN  IF fail \in {"query", "to_dataframe"}
             THEN [r EXCEPT !.outcome = "raise", !.exc = "Exception"]
             ELSE StoreAndCount(c, r, "df_table", fail)

\* The part the five delete/update methods share after building their
\* statement: the table lookup, the streaming-buffer guard, the statement,
\* and the storing of job.to_dataframe() as df_table{N}.
\* streaming_buffer: whether the looked-up table's streaming_buffer is not
\* None.
GuardedStatement(c, streaming_buffer, fail) ==
    IF ~c.project \/ ~c.dataset \/ ~c.bqclient THEN Raise(c, "AttributeError")
    ELSE IF fail = "get_table" THEN Raise(c, "Exception")
    ELSE LET seen == [Result(c, "ok", "none") EXCEPT !.buffer = streaming_buffer]
         IN  IF streaming_buffer
             THEN [seen EXCEPT !.outcome = "raise", !.exc = "RuntimeError"]
             ELSE LET r == [seen EXCEPT !.stmt = TRUE]
                  IN  IF fail \in {"query", "to_dataframe"}
                      THEN [r EXCEPT !.outcome = "raise", !.exc = "Exception"]
                      ELSE StoreAndCount(c, r, "df_table", fail)

MaxValues == 2
\* nvalues: how many values values_to_delete holds once normalised to a list;
\* the first is popped before the statement is built.
delete_specific_values_from_column_on_table(c, nvalues, streaming_buffer, fail) ==
    IF nvalues = 0 THEN Raise(c, "IndexError")
    ELSE GuardedStatement(c, streaming_buffer, fail)

update_specific_value_from_column_on_table(c, streaming_buffer, fail) ==
    GuardedStatement(c, streaming_buffer, fail)

update_entire_column_from_table(c, streaming_buffer, fail) ==
    GuardedStatement(c, streaming_buffer, fail)

update_value_when_finding_str_or_substring_on_another_column(c, streaming_buffer, fail) ==
    GuardedStatement(c, streaming_buffer, fail)

update_value_when_finding_numeric_value_on_another_column(c, streaming_buffer, fail) ==
    GuardedStatement(c, streaming_buffer, fail)

ViewFailPoints == {"none", "get_table", "query", "create_table", "to_csv"}

\* create_new_view: self.table_exists(bqclient, view_id) passes two
\* arguments to a method that takes one.
create_new_view(c, view_id, fail) ==
    IF ~c.bqclient \/ ~c.bqstorageclient THEN Raise(c, "AttributeError")
    ELSE LET found == table_exists(c, <<"bqclient", view_id>>, fail # "get_table")
             r0 == [Result(c, "ok", "none") EXCEPT !.existed = view_id \in wh.views]
         IN  IF found = "TypeError"
             THEN [r0 EXCEPT !.outcome = "raise", !.exc = "TypeError"]
             ELSE IF found = "True" THEN [r0 EXCEPT !.ret = "self"]
             ELSE IF fail = "query"
                  THEN [r0 EXCEPT !.outcome = "raise", !.exc = "Exception",
                                  !.queries = 1]
             ELSE IF fail = "create_table"
                  THEN [r0 EXCEPT !.outcome = "raise", !.exc = "Exception",
                                  !.queries = 1, !.creates = 1]
             ELSE StoreAndCount(c, [r0 EXCEPT !.queries = 1, !.creates = 1,
                                              !.view_created = view_id],
                                "df_view", fail)

\* --------------------------------------------- SQLServerConnection (core.py)
SQLServerConnection_init(connect_ok) ==
    IF connect_ok THEN Result(NewObj("SQLServerConnection"), "ok", "none")
    ELSE Raise(NewObj("SQLServerConnection"), "Exception")

get_db_schema(c, fail) ==
    IF fail \in {"query", "to_csv"} THEN Raise(c, "Exception")
    ELSE [Result(c, "ok", "none") EXCEPT !.ret = "self", !.queries = 1]

SQLServerConnection_run_sql_query(c, fail) ==
    LET r == [Result(c, "ok", "none") EXCEPT !.queries = 1]
    IN  IF fail \in {"query", "to_dataframe"}
        THEN [r EXCEPT !.outcome = "raise", !.exc = "Exception"]
        ELSE StoreAndCount(c, r, "df_query", fail)

SQLServerConnection_get_full_table(c, fail) ==
    LET r == [Result(c, "ok", "none") EXCEPT !.queries = 1]
    IN  IF fail \in {"query", "to_dataframe"}
        THEN [r EXCEPT !.outcome = "raise", !.exc = "Exception"]
        ELSE StoreAndCount(c, r, "df_table", fail)

query_specific_tag_ip21sqlserver(c, fail) ==
    SQLServerConnection_run_sql_query(c, fail)

\* ------------------------------------------------ SQLiteConnection (core.py)
SQLiteConnection_init(pre_created_engine) ==
    [NewObj("SQLiteConnection") EXCEPT !.engine = pre_created_engine]

\* create_engine: eid is the identity of the engine sqlalchemy builds;
\* url_ok is whether the path slicing and the engine construction go through.
create_engine(c, eid, url_ok) ==
    IF url_ok
    THEN [Result([c EXCEPT !.engine = eid], "ok", "none") EXCEPT
              !.ret = "self", !.new_engine = TRUE]
    ELSE Raise(c, "InvalidInputsError")

\* fetch_table without the try around the read: what pd.read_sql raises
\* reaches the caller.
fetch_table_no_try(c, eid, url_ok, read_ok) ==
    LET e == IF c.engine = 0 THEN create_engine(c, eid, url_ok)
             ELSE Result(c, "ok", "none")
    IN  IF e.outcome = "raise" THEN e
        ELSE IF read_ok
             THEN [e EXCEPT !.ret = "df", !.engine = e.conn.engine]
             ELSE [e EXCEPT !.outcome = "raise", !.exc = "OperationalError"]

\* fetch_table, with an engine built at every call.
fetch_table_engine_every_call(c, eid, url_ok, read_ok) ==
    LET e == create_engine(c, eid, url_ok)
    IN  IF e.outcome = "raise" THEN e
        ELSE IF read_ok
             THEN [e EXCEPT !.ret = "df", !.engine = e.conn.engine]
             ELSE [e EXCEPT !.outcome = "raise", !.exc = "InvalidInputsError"]

\* fetch_table: the engine is built when the connector has none; read_ok is
\* whether pd.read_sql goes through; the bare except turns every failure of
\* the read into InvalidInputsError.
fetch_table(c, eid, url_ok, read_ok) ==
    LET e == IF c.engine = 0 THEN create_engine(c, eid, url_ok)
             ELSE Result(c, "ok", "none")
    IN  IF e.outcome = "raise" THEN e
        ELSE IF read_ok
             THEN [e EXCEPT !.ret = "df", !.engine = e.conn.engine]
             ELSE [e EXCEPT !.outcome = "raise", !.exc = "InvalidInputsError"]

\* update_or_create_table(self, table_name): the body names df and engine,
\* which are neither parameters nor module names; the NameError is caught by
\* the bare except and re-raised as InvalidInputsError.
update_or_create_table(c, eid, url_ok) ==
    LET e == IF c.engine = 0 THEN create_engine(c, eid, url_ok)
             ELSE Result(c, "ok", "none")
    IN  IF e.outcome = "raise" THEN e
        ELSE [e EXCEPT !.outcome = "raise", !.exc = "InvalidInputsError"]

\* ------------------------------------------------ MountGoogleDrive (core.py)
mount_drive(c, ok) ==
    IF ok THEN [Result(c, "ok", "none") EXCEPT !.mounts = 1]
    ELSE [Raise(c, "Exception") EXCEPT !.mounts = 1]

\* upload_to_colab returns self from inside the loop over the uploaded files,
\* so it returns None when nothing was uploaded.
upload_to_colab(c, nfiles, ok) ==
    IF ~ok THEN Raise(c, "Exception")
    ELSE IF nfiles = 0 THEN Result(c, "ok", "none")
    ELSE [Result(c, "ok", "none") EXCEPT !.ret = "self"]

download_from_colab(c, ok) ==
    IF ~ok THEN Raise(c, "Exception")
    ELSE [Result(c, "ok", "none") EXCEPT !.ret = "self"]

\* --------------------------------------------------- pipelines (pipes.py)
\* `if Connectors.<slot>:` inside try: reading an attribute the class does
\* not have raises AttributeError, the truth value of a DataFrame raises
\* ValueError, None is false, a connector object is true.
SlotTruth(v) ==
    CASE v.kind = "unset" -> "AttributeError"
      [] v.kind = "DataFrame" -> "ValueError"
      [] v.kind = "None" -> "False"
      [] OTHER -> "True"

\* Branch, with the persistent flag not consulted: a stored connector is
\* never taken.
Branch_never_reuse(s) ==
    LET t == SlotTruth(slots[s])
    IN  IF t \in {"AttributeError", "ValueError"} THEN "except"
        ELSE IF t = "False" THEN "skip"
        ELSE "create"

\* The way through the try / if / else / except that opens each pipeline:
\*   "reuse"  the stored connector is taken,
\*   "create" a connector is built inside the try,
\*   "except" a connector is built by the except clause,
\*   "skip"   nothing is bound to the local name.
Branch(s) ==
    LET t == SlotTruth(slots[s])
    IN  IF t \in {"AttributeError", "ValueError"} THEN "except"
        ELSE IF t = "False" THEN "skip"
        ELSE IF persistent THEN "reuse"
        ELSE "create"

\* The value a method's return leaves in a local name.
ValueOf(ret, id) ==
    CASE ret = "self" -> Ref(id)
      [] ret = "df" -> DataFrame
      [] OTHER -> NoneValue

CallRec(fn, action, r, obj, built) ==
    [NoCall EXCEPT !.fn = fn, !.action = action, !.outcome = r.outcome,
                   !.exc = r.exc, !.obj = obj, !.built = built,
                   !.persistent = persistent, !.engine = r.engine,
                   !.n0 = r.n0, !.stored = r.stored, !.buffer = r.buffer,
                   !.stmt = r.stmt, !.queries = r.queries,
                   !.creates = r.creates, !.mounts = r.mounts,
                   !.existed = r.existed, !.inserted = r.inserted,
                   !.errors = r.errors, !.ret = r.ret]

\* A call as it ends: the heap, the registry and the warehouse it leaves,
\* its record, and the largest query_counter it leaves on a connector.
Call(h, sl, w, rec, counter) ==
    [heap |-> h, slots |-> sl, wh |-> w, last |-> rec, counter |-> counter]

Ended(call) ==
    /\ Len(call.heap) <= MaxObjects
    /\ call.counter <= MaxQueries
    /\ heap' = call.heap
    /\ slots' = call.slots
    /\ wh' = call.wh
    /\ calls' = calls + 1
    /\ prev' = Brief(last)
    /\ last' = call.last
    /\ UNCHANGED <<persistent, rangeVars, cleansingVars, schemaVars, findVars,
                   engineVars, authVars, vaultVars,
                   helperVars>>

Sources == {"google", "aws", "other"}

mount_storage_system_call(source) ==
    LET s == "google_drive_connector"
        b == Branch(s)
        new == source = "google" /\ b \in {"create", "except"}
        obj == IF source # "google" \/ b = "skip" THEN 0
               ELSE IF new THEN nextId ELSE slots[s].id
        r == IF source = "other"
             THEN Raise(NewObj("MountGoogleDrive"), "InvalidInputsError")
             ELSE Result(NewObj("MountGoogleDrive"), "ok", "none")
    IN  Call(IF new THEN Append(heap, NewObj("MountGoogleDrive")) ELSE heap,
             IF new THEN [slots EXCEPT ![s] = Ref(nextId)] ELSE slots,
             wh,
             CallRec("mount_storage_system", source, r, obj,
                     IF new THEN 1 ELSE 0),
             0)

mount_storage_system ==
    /\ calls < MaxCalls
    /\ \E call \in {mount_storage_system_call(source) : source \in Sources} :
            Ended(call)

ColabActions == {"upload", "download", "other"}
\* Files the user may choose in the upload dialog.
MaxFiles == 1

\* colab_dispatch without its else branch: an unrecognized action falls
\* through to the end of the function.
colab_dispatch_no_else(c, action, nfiles, ok) ==
    IF action = "upload"
    THEN LET r == upload_to_colab(c, nfiles, ok)
         IN  IF r.outcome = "ok" /\ r.ret # "self"
             THEN Raise(c, "AttributeError")
             ELSE r
    ELSE IF action = "download" THEN download_from_colab(c, ok)
    ELSE Result(c, "ok", "none")

\* The action part of upload_to_or_download_file_from_colab on connector c.
colab_dispatch(c, action, nfiles, ok) ==
    IF action = "upload"
    THEN LET r == upload_to_colab(c, nfiles, ok)
         IN  IF r.outcome = "ok" /\ r.ret # "self"
             THEN Raise(c, "AttributeError")
             ELSE r
    ELSE IF action = "download" THEN download_from_colab(c, ok)
    ELSE Raise(c, "InvalidInputsError")

\* in: connect_to_gdrive, the outcome of each mount_drive the opening may
\* run (mount_ok1, mount_ok2), the number of files chosen, the transfer's
\* outcome.
ColabInputs ==
    [connect_to_gdrive : BOOLEAN, mount_ok1 : BOOLEAN, mount_ok2 : BOOLEAN,
     nfiles : 0..MaxFiles, ok : BOOLEAN]

upload_to_or_download_file_from_colab_call(action, in) ==
    LET s == "google_drive_connector"
        b == Branch(s)
        c0 == NewObj("MountGoogleDrive")
        first == IF in.connect_to_gdrive THEN mount_drive(c0, in.mount_ok1)
                 ELSE Result(c0, "ok", "none")
        second == IF in.connect_to_gdrive THEN mount_drive(c0, in.mount_ok2)
                  ELSE Result(c0, "ok", "none")
        \* the connector the opening leaves, or the exception it ends in
        p == CASE b = "reuse" -> Result(heap[slots[s].id], "ok", "none")
               [] b = "except" -> first
               [] b = "create" ->
                    IF first.outcome = "ok" THEN first
                    ELSE [second EXCEPT !.mounts = first.mounts + second.mounts]
               [] OTHER -> Result(c0, "ok", "none")
        built == CASE b = "except" -> 1
                   [] b = "create" -> IF first.outcome = "ok" THEN 1 ELSE 2
                   [] OTHER -> 0
        new == b \in {"create", "except"} /\ p.outcome = "ok"
        obj == IF new THEN nextId ELSE IF b = "reuse" THEN slots[s].id ELSE 0
        d == IF p.outcome = "raise" THEN p
             ELSE IF b = "skip"
                  THEN IF action = "other" THEN Raise(c0, "InvalidInputsError")
                       ELSE Raise(c0, "UnboundLocalError")
                  ELSE [colab_dispatch(p.conn, action, in.nfiles, in.ok)
                           EXCEPT !.mounts = p.mounts]
    IN  Call(IF new THEN Append(heap, c0) ELSE heap,
             IF new THEN [slots EXCEPT ![s] = Ref(nextId)] ELSE slots,
             wh,
             CallRec("upload_to_or_download_file_from_colab", action, d, obj,
                     built),
             0)

upload_to_or_download_file_from_colab ==
    /\ calls < MaxCalls
    /\ \E call \in {upload_to_or_download_file_from_colab_call(action, in) :
                        action \in ColabActions, in \in ColabInputs} :
            Ended(call)

JsonObjTypes == {"string", "list", "other"}

\* json_obj_to_pandas_dataframe: json.loads for a string, the object itself
\* for a list, InvalidInputsError otherwise; then json_normalize. loads_ok and
\* normalize_ok say whether the library calls accept the object.
json_obj_to_pandas_dataframe_call(json_obj_type, loads_ok, normalize_ok) ==
    LET c == NewObj("none")
        r == IF json_obj_type = "string" /\ ~loads_ok
             THEN Raise(c, "JSONDecodeError")
             ELSE IF json_obj_type \notin {"string", "list"}
             THEN Raise(c, "InvalidInputsError")
             ELSE IF ~normalize_ok THEN Raise(c, "Exception")
             ELSE [Result(c, "ok", "none") EXCEPT !.ret = "df"]
    IN  Call(heap, slots, wh,
             CallRec("json_obj_to_pandas_dataframe", json_obj_type, r, 0, 0), 0)

json_obj_to_pandas_dataframe ==
    /\ calls < MaxCalls
    /\ \E call \in {json_obj_to_pandas_dataframe_call(t, loads_ok, normalize_ok) :
                        t \in JsonObjTypes, loads_ok \in BOOLEAN,
                        normalize_ok \in BOOLEAN} :
            Ended(call)

SQLiteActions == {"fetch_table", "update_table", "other"}

\* The action part of manipulate_sqlite_db, with fetch_table as the branch
\* taken by every action that is not 'update_table'.
sqlite_dispatch_else_fetches(c, action, eid, url_ok, read_ok) ==
    IF action = "update_table" THEN update_or_create_table(c, eid, url_ok)
    ELSE fetch_table(c, eid, url_ok, read_ok)

\* The action part of manipulate_sqlite_db on connector c.
sqlite_dispatch(c, action, eid, url_ok, read_ok) ==
    IF action = "fetch_table" THEN fetch_table(c, eid, url_ok, read_ok)
    ELSE IF action = "update_table" THEN update_or_create_table(c, eid, url_ok)
    ELSE Result(c, "ok", "none")

manipulate_sqlite_db_call(action, pre_created_engine, url_ok, read_ok) ==
    LET s == "sqlite_connector"
        b == Branch(s)
        new == b \in {"create", "except"}
        obj == IF new THEN nextId ELSE IF b = "reuse" THEN slots[s].id ELSE 0
        c == IF b = "reuse" THEN heap[obj]
             ELSE SQLiteConnection_init(pre_created_engine)
        eid == IF new THEN nextId + 1 ELSE nextId
        r == IF b = "skip"
             THEN IF action = "other" THEN Result(c, "ok", "none")
                  ELSE Raise(c, "UnboundLocalError")
             ELSE sqlite_dispatch(c, action, eid, url_ok, read_ok)
        stored == r.outcome = "ok" /\ action \in {"fetch_table", "update_table"}
        \* a connector built by this call lives on only in the registry
        kept == new /\ stored
        h1 == IF kept THEN Append(heap, r.conn)
              ELSE IF b = "reuse" THEN [heap EXCEPT ![obj] = r.conn]
              ELSE heap
        h2 == IF r.new_engine /\ (kept \/ b = "reuse")
              THEN Append(h1, NewObj("Engine")) ELSE h1
    IN  Call(h2,
             IF stored THEN [slots EXCEPT ![s] = Ref(obj)] ELSE slots,
             wh,
             CallRec("manipulate_sqlite_db", action, r, obj,
                     IF new THEN 1 ELSE 0),
             0)

manipulate_sqlite_db ==
    /\ calls < MaxCalls
    /\ \E call \in {manipulate_sqlite_db_call(action, e, url_ok, read_ok) :
                        action \in SQLiteActions,
                        e \in {0} \cup IdsOf("Engine"),
                        url_ok \in BOOLEAN, read_ok \in BOOLEAN} :
            Ended(call)

DmlActions ==
    {"delete_specific_values_from_column_on_table",
     "update_specific_value_from_column_on_table",
     "update_entire_column_from_table",
     "update_value_when_finding_str_or_substring_on_another_column",
     "update_value_when_finding_numeric_value_on_another_column"}

BigQueryActions ==
    {"connect", "run_sql_query", "get_full_table",
     "write_data_on_bigquery_table", "create_new_view"} \cup DmlActions

\* The arguments of GCPBigQueryConnection(...) and authenticate(...).
GCPArgs ==
    [project_blank : BOOLEAN, dataset_blank : BOOLEAN,
     already_authenticated : BOOLEAN, authentication_method : AuthMethods]

\* What the outside world answers to one authentication.
AuthEnvs == [fail : AuthFailPoints, retry_ok : BOOLEAN]

\* GCPBigQueryConnection(project, dataset, already_authenticated) followed by
\* .authenticate(authentication_method, ...).
NewGCPConnector(a, env) ==
    LET r == GCPBigQueryConnection_init(a.project_blank, a.dataset_blank,
                                        a.already_authenticated)
    IN  IF r.outcome = "raise" THEN r
        ELSE authenticate(r.conn, a.authentication_method, env.fail, env.retry_ok)

\* The arguments and outside answers one action of bigquery_pipeline reads.
NoInput ==
    [fail |-> "none", nvalues |-> 1, streaming_buffer |-> FALSE,
     errors |-> <<0>>, lookup_ok |-> TRUE, view_id |-> "v1"]

OpInputs(action) ==
    CASE action \in {"run_sql_query", "get_full_table"} ->
            {[NoInput EXCEPT !.fail = f] : f \in QueryFailPoints}
      [] action = "write_data_on_bigquery_table" ->
            {[NoInput EXCEPT !.lookup_ok = l, !.errors = e] :
                l \in BOOLEAN, e \in ErrorLists}
      [] action = "delete_specific_values_from_column_on_table" ->
            {[NoInput EXCEPT !.nvalues = n, !.streaming_buffer = b, !.fail = f] :
                n \in 0..MaxValues, b \in BOOLEAN, f \in DmlFailPoints}
      [] action \in DmlActions ->
            {[NoInput EXCEPT !.streaming_buffer = b, !.fail = f] :
                b \in BOOLEAN, f \in DmlFailPoints}
      [] action = "create_new_view" ->
            {[NoInput EXCEPT !.view_id = v, !.fail = f] :
                v \in ViewIds, f \in ViewFailPoints}
      [] OTHER -> {NoInput}

\* The action part of bigquery_pipeline on connector c.
bigquery_dispatch(c, action, in) ==
    CASE action = "connect" -> [Result(c, "ok", "none") EXCEPT !.ret = "self"]
      [] action = "run_sql_query" ->
            GCPBigQueryConnection_run_sql_query(c, in.fail)
      [] action = "get_full_table" ->
            GCPBigQueryConnection_get_full_table(c, in.fail)
      [] action = "write_data_on_bigquery_table" ->
            write_data_on_bigquery_table(c, in.lookup_ok, in.errors)
      [] action = "delete_specific_values_from_column_on_table" ->
            delete_specific_values_from_column_on_table(
                c, in.nvalues, in.streaming_buffer, in.fail)
      [] action = "update_specific_value_from_column_on_table" ->
            update_specific_value_from_column_on_table(
                c, in.streaming_buffer, in.fail)
      [] action = "update_entire_column_from_table" ->
            update_entire_column_from_table(c, in.streaming_buffer, in.fail)
      [] action = "update_value_when_finding_str_or_substring_on_another_column" ->
            update_value_when_finding_str_or_substring_on_another_column(
                c, in.streaming_buffer, in.fail)
      [] action = "update_value_when_finding_numeric_value_on_another_column" ->
            update_value_when_finding_numeric_value_on_another_column(
                c, in.streaming_buffer, in.fail)
      [] action = "create_new_view" -> create_new_view(c, in.view_id, in.fail)
      [] OTHER -> Result(c, "ok", "none")

\* bigquery_registry_write, with every action storing what its method
\* returned, as sqlserver_pipeline does.
bigquery_registry_write_returned(action, id, r) ==
    CASE action = "connect" -> Ref(id)
      [] action \in BigQueryActions \ {"create_new_view"} -> ValueOf(r.ret, id)
      [] OTHER -> slots["gcp_connector"]

\* bigquery_registry_write, with the query actions returning their result
\* without writing the connector back, as the create_new_view branch does.
bigquery_registry_write_no_query(action, id, r) ==
    CASE action = "write_data_on_bigquery_table" -> ValueOf(r.ret, id)
      [] action \in BigQueryActions \
            {"create_new_view", "run_sql_query", "get_full_table"} -> Ref(id)
      [] OTHER -> slots["gcp_connector"]

\* What bigquery_pipeline leaves in Connectors.gcp_connector once the method
\* returned r on the connector with identity id.
bigquery_registry_write(action, id, r) ==
    CASE action = "write_data_on_bigquery_table" -> ValueOf(r.ret, id)
      [] action \in BigQueryActions \ {"create_new_view"} -> Ref(id)
      [] OTHER -> slots["gcp_connector"]

\* The outcomes of building the connector in the except clause: one attempt.
GCPOpeningsExcept ==
    {[p |-> NewGCPConnector(a, env), built |-> 1] :
        a \in GCPArgs, env \in AuthEnvs}

\* The outcomes of building it inside the try: when that attempt raises, the
\* except clause builds once more (same arguments, outside answers of its own).
GCPOpeningsCreate ==
    {LET first == NewGCPConnector(a, env1)
     IN  IF first.outcome = "ok" THEN [p |-> first, built |-> 1]
         ELSE [p |-> NewGCPConnector(a, env2), built |-> 2] :
        a \in GCPArgs, env1 \in AuthEnvs, env2 \in AuthEnvs}

\* The connector the opening of bigquery_pipeline leaves on branch b, or the
\* exception it ends in.
GCPOpenings(b) ==
    CASE b = "except" -> GCPOpeningsExcept
      [] b = "create" -> GCPOpeningsCreate
      [] b = "reuse" ->
            {[p |-> Result(heap[slots["gcp_connector"].id], "ok", "none"),
              built |-> 0]}
      [] OTHER ->
            {[p |-> Result(NewObj("GCPBigQueryConnection"), "ok", "none"),
              built |-> 0]}

\* One call of bigquery_pipeline: the opening o and the action on the
\* connector it leaves; gives the heap, the registry, the warehouse and the
\* call's record once the call has ended.
bigquery_pipeline_call(o, action, in) ==
    LET s == "gcp_connector"
        b == Branch(s)
        p == o.p
        new == b \in {"create", "except"} /\ p.outcome = "ok"
        obj == IF new THEN nextId ELSE IF b = "reuse" THEN slots[s].id ELSE 0
        r == IF p.outcome = "raise" THEN p
             ELSE IF b = "skip"
                  THEN IF action \in BigQueryActions
                       THEN Raise(p.conn, "UnboundLocalError")
                       ELSE Result(p.conn, "ok", "none")
                  ELSE bigquery_dispatch(p.conn, action, in)
        written == IF r.outcome = "ok"
                   THEN bigquery_registry_write(action, obj, r)
                   ELSE slots[s]
        \* a connector built by this call lives on in the registry or with
        \* the caller it was returned to
        kept == new /\ (written = Ref(obj) \/ (r.outcome = "ok" /\ r.ret = "self"))
    IN  Call(IF kept THEN Append(heap, r.conn)
             ELSE IF b = "reuse" THEN [heap EXCEPT ![obj] = r.conn]
             ELSE heap,
             [slots EXCEPT ![s] = written],
             IF r.view_created = "none" THEN wh
             ELSE [wh EXCEPT !.views = @ \cup {r.view_created}],
             [CallRec("bigquery_pipeline", action, r, obj, o.built)
                 EXCEPT !.view = IF action = "create_new_view"
                                 THEN in.view_id ELSE "none",
                        !.fail = IF action = "create_new_view"
                                 THEN in.fail ELSE "none"],
             r.conn.query_counter)

\* The calls bigquery_pipeline can make in the current state, over its
\* arguments and the outside answers; once the opening raised, the action's
\* inputs are not read.
bigquery_pipeline_calls ==
    UNION {UNION {{bigquery_pipeline_call(o, action, in) :
                        in \in IF o.p.outcome = "ok" THEN OpInputs(action)
                               ELSE {NoInput}} :
                    o \in GCPOpenings(Branch("gcp_connector"))} :
            action \in BigQueryActions \cup {"other"}}

bigquery_pipeline ==
    /\ calls < MaxCalls
    /\ \E call \in bigquery_pipeline_calls : Ended(call)

SQLServerActions ==
    {"connect", "get_db_schema", "run_sql_query", "get_full_table",
     "query_specific_tag_ip21sqlserver"}

\* The names sqlserver_pipeline can read: its parameters. The module binds no
\* name `action`.
sqlserver_pipeline_parameters ==
    {"server", "database", "username", "password", "system", "show_schema",
     "export_csv", "saving_directory_path", "query", "show_table", "table",
     "tag", "variable_name"}

\* The action part of sqlserver_pipeline on connector c.
sqlserver_dispatch(c, action, fail) ==
    IF "action" \notin sqlserver_pipeline_parameters THEN Raise(c, "NameError")
    ELSE CASE action = "connect" -> [Result(c, "ok", "none") EXCEPT !.ret = "self"]
           [] action = "get_db_schema" -> get_db_schema(c, fail)
           [] action = "run_sql_query" -> SQLServerConnection_run_sql_query(c, fail)
           [] action = "get_full_table" -> SQLServerConnection_get_full_table(c, fail)
           [] action = "query_specific_tag_ip21sqlserver" ->
                query_specific_tag_ip21sqlserver(c, fail)
           [] OTHER -> Result(c, "ok", "none")

\* What sqlserver_pipeline leaves in Connectors.sqlserver_connector: each
\* method's return value, the connector itself for 'connect'.
sqlserver_registry_write(action, id, r) ==
    CASE action = "connect" -> Ref(id)
      [] action \in SQLServerActions -> ValueOf(r.ret, id)
      [] OTHER -> slots["sqlserver_connector"]

sqlserver_pipeline_call(action, fail, connect_ok1, connect_ok2) ==
    LET s == "sqlserver_connector"
        b == Branch(s)
        first == SQLServerConnection_init(connect_ok1)
        p == CASE b = "reuse" -> Result(heap[slots[s].id], "ok", "none")
               [] b = "except" -> first
               [] b = "create" ->
                    IF first.outcome = "ok" THEN first
                    ELSE SQLServerConnection_init(connect_ok2)
               [] OTHER -> Result(NewObj("SQLServerConnection"), "ok", "none")
        built == CASE b = "except" -> 1
                   [] b = "create" -> IF first.outcome = "ok" THEN 1 ELSE 2
                   [] OTHER -> 0
        new == b \in {"create", "except"} /\ p.outcome = "ok"
        obj == IF new THEN nextId ELSE IF b = "reuse" THEN slots[s].id ELSE 0
        r == IF p.outcome = "raise" THEN p
             ELSE sqlserver_dispatch(p.conn, action, fail)
        written == IF r.outcome = "ok"
                   THEN sqlserver_registry_write(action, obj, r)
                   ELSE slots[s]
        kept == new /\ (written = Ref(obj) \/ (r.outcome = "ok" /\ r.ret = "self"))
    IN  Call(IF kept THEN Append(heap, r.conn)
             ELSE IF b = "reuse" THEN [heap EXCEPT ![obj] = r.conn]
             ELSE heap,
             [slots EXCEPT ![s] = written],
             wh,
             CallRec("sqlserver_pipeline", action, r, obj, built),
             r.conn.query_counter)

sqlserver_pipeline ==
    /\ calls < MaxCalls
    /\ \E call \in {sqlserver_pipeline_call(action, fail, ok1, ok2) :
                        action \in SQLServerActions \cup {"other"},
                        fail \in QueryFailPoints,
                        ok1 \in BOOLEAN, ok2 \in BOOLEAN} :
            Ended(call)

\* ------------------------------------- calls on a connector the caller holds
\* SQLServerConnection(server, database, ...) called by the user, who keeps
\* the connector.
SQLServerConnection_new ==
    /\ calls < MaxCalls
    /\ \E connect_ok \in BOOLEAN :
        LET r == SQLServerConnection_init(connect_ok)
        IN  Ended(Call(IF r.outcome = "ok" THEN Append(heap, r.conn) ELSE heap,
                       slots, wh,
                       CallRec("SQLServerConnection", "init", r,
                               IF r.outcome = "ok" THEN nextId ELSE 0, 1),
                       0))

\* A method of SQLServerConnection called on a connector the user holds.
SQLServerConnection_call ==
    /\ calls < MaxCalls
    /\ \E id \in IdsOf("SQLServerConnection"), fail \in QueryFailPoints,
          m \in SQLServerActions \ {"connect"} :
        LET c == heap[id]
            r == CASE m = "get_db_schema" -> get_db_schema(c, fail)
                   [] m = "run_sql_query" -> SQLServerConnection_run_sql_query(c, fail)
                   [] m = "get_full_table" -> SQLServerConnection_get_full_table(c, fail)
                   [] OTHER -> query_specific_tag_ip21sqlserver(c, fail)
        IN  Ended(Call([heap EXCEPT ![id] = r.conn], slots, wh,
                       CallRec("SQLServerConnection", m, r, id, 0),
                       r.conn.query_counter))

\* The user assigns Connectors.persistent.
SetPersistent ==
    /\ persistent' = ~persistent
    /\ UNCHANGED <<slots, heap, wh, last, prev, calls, rangeVars, cleansingVars,
                   schemaVars, findVars, engineVars,
                   authVars, vaultVars,
                   helperVars>>

\* ------------------------------- IngestExcelTables.get_table_parameters
\* Strings are sequences of one-character strings.
Letters == {"A", "B", "C"}
Digits == {"0", "1", "2", "7", "8"}
\* Longest run of column letters and of row digits in one cell reference.
MaxLetters == 2
MaxDigits == 2

DigitValue(d) ==
    CASE d = "0" -> 0 [] d = "1" -> 1 [] d = "2" -> 2 [] d = "7" -> 7
      [] d = "8" -> 8

\* int(s) succeeds on a non-empty string of decimal digits and raises
\* ValueError on every other string over Letters, Digits and ":".
IntConverts(str) == Len(str) > 0 /\ \A i \in 1..Len(str) : str[i] \in Digits

RECURSIVE IntValue(_)
IntValue(str) ==
    IF str = <<>> THEN 0
    ELSE 10 * IntValue(SubSeq(str, 1, Len(str) - 1)) + DigitValue(str[Len(str)])

\* str.split(":")
RECURSIVE Split(_)
Split(str) ==
    IF \A i \in 1..Len(str) : str[i] # ":" THEN <<str>>
    ELSE LET k == CHOOSE i \in 1..Len(str) :
                    str[i] = ":" /\ \A j \in 1..(i - 1) : str[j] # ":"
         IN  <<SubSeq(str, 1, k - 1)>> \o Split(SubSeq(str, k + 1, Len(str)))

\* for i in range(len(cell)): try: col, row = cell[:i], int(cell[i:]); break
\* except: pass.  bound: whether the loop assigned the two names.
SplitCell(cell) ==
    LET fits == {i \in 0..(Len(cell) - 1) :
                    IntConverts(SubSeq(cell, i + 1, Len(cell)))}
    IN  IF fits = {} THEN [bound |-> FALSE, col |-> <<>>, row |-> 0]
        ELSE LET i == CHOOSE k \in fits : \A j \in fits : k <= j
             IN  [bound |-> TRUE, col |-> SubSeq(cell, 1, i),
                  row |-> IntValue(SubSeq(cell, i + 1, Len(cell)))]

NoParameters ==
    [done |-> FALSE, outcome |-> "none", exc |-> "none", usecols |-> <<>>,
     skiprows |-> 0]

\* get_table_parameters, with skiprows given the first row itself.
get_table_parameters_first_row(range) ==
    LET ranges == Split(range)
        first == SplitCell(ranges[1])
    IN  IF Len(ranges) < 2
        THEN [NoParameters EXCEPT !.done = TRUE, !.outcome = "raise",
                                  !.exc = "IndexError"]
        ELSE LET second == SplitCell(ranges[2])
             IN  IF ~first.bound \/ ~second.bound
                 THEN [NoParameters EXCEPT !.done = TRUE, !.outcome = "raise",
                                           !.exc = "UnboundLocalError"]
                 ELSE [NoParameters EXCEPT
                          !.done = TRUE, !.outcome = "ok",
                          !.usecols = first.col \o <<":">> \o second.col,
                          !.skiprows = first.row]

get_table_parameters(range) ==
    LET ranges == Split(range)
        first == SplitCell(ranges[1])
    IN  IF Len(ranges) < 2
        THEN [NoParameters EXCEPT !.done = TRUE, !.outcome = "raise",
                                  !.exc = "IndexError"]
        ELSE LET second == SplitCell(ranges[2])
             IN  IF ~first.bound \/ ~second.bound
                 THEN [NoParameters EXCEPT !.done = TRUE, !.outcome = "raise",
                                           !.exc = "UnboundLocalError"]
                 ELSE [NoParameters EXCEPT
                          !.done = TRUE, !.outcome = "ok",
                          !.usecols = first.col \o <<":">> \o second.col,
                          !.skiprows = first.row - 1]

LetterStrings(letters) == UNION {[1..n -> Letters] : n \in 0..letters}
DigitStrings(digits) == UNION {[1..n -> Digits] : n \in 0..digits}

\* The range strings tried: <L1><R1>:<L2><R2>, each part possibly empty, and
\* a lone cell reference without the colon.
RangeParts(letters, digits) ==
    [L1 : LetterStrings(letters), R1 : DigitStrings(digits), colon : {TRUE},
     L2 : LetterStrings(letters), R2 : DigitStrings(digits)]
    \cup [L1 : LetterStrings(letters), R1 : DigitStrings(digits), colon : {FALSE},
          L2 : {<<>>}, R2 : {<<>>}]

RangeString(parts) ==
    parts.L1 \o parts.R1 \o (IF parts.colon THEN <<":">> ELSE <<>>)
        \o parts.L2 \o parts.R2

get_table_parameters_call ==
    /\ ~table_parameters.done
    /\ table_parameters' = get_table_parameters(tab_range)
    /\ UNCHANGED <<registryVars, tab_parts, tab_range, cleansingVars, schemaVars,
                   findVars, engineVars, authVars, vaultVars,
                   helperVars>>

\* -------------------------------------- IngestExcelTables.pre_cleansing
\* A table: its column labels, its row index and its rows of cells; a cell is
\* NaN or holds a value.
NaN == [na |-> TRUE, v |-> 0]
Cell(v) == [na |-> FALSE, v |-> v]
\* Columns and rows of the tables tried.
MaxCols == 2
MaxRows == 2

\* What a cell may hold: nothing, or one of two values.
Cells == {NaN, Cell(1), Cell(2)}
ColumnLabels == <<"c1", "c2", "c3", "c4">>

EmptyTable == [columns |-> <<>>, index |-> <<>>, data |-> <<>>]

\* The subsequence of seq at the positions in keep, in order.
RECURSIVE Keep(_, _)
Keep(seq, keep) ==
    IF seq = <<>> THEN <<>>
    ELSE Keep(SubSeq(seq, 1, Len(seq) - 1), keep)
            \o (IF Len(seq) \in keep THEN <<seq[Len(seq)]>> ELSE <<>>)

\* df.dropna(axis = 1, how = 'all'): a column stays when some row holds a
\* value in it.
dropna_columns(df) ==
    LET keep == {j \in 1..Len(df.columns) :
                    \E i \in 1..Len(df.data) : ~df.data[i][j].na}
    IN  [df EXCEPT !.columns = Keep(df.columns, keep),
                   !.data = [i \in 1..Len(df.data) |-> Keep(df.data[i], keep)]]

\* df.dropna(axis = 0, how = 'all'): a row stays when some column holds a
\* value in it.
dropna_rows(df) ==
    LET keep == {i \in 1..Len(df.data) :
                    \E j \in 1..Len(df.columns) : ~df.data[i][j].na}
    IN  [df EXCEPT !.index = Keep(df.index, keep),
                   !.data = Keep(df.data, keep)]

\* df.drop_duplicates(): the first of equal rows stays, NaN equal to NaN; a
\* table with no row or no column is returned as it is.
drop_duplicates(df) ==
    LET keep == {i \in 1..Len(df.data) :
                    \A k \in 1..(i - 1) : df.data[k] # df.data[i]}
    IN  IF df.data = <<>> \/ df.columns = <<>> THEN df
        ELSE [df EXCEPT !.index = Keep(df.index, keep),
                        !.data = Keep(df.data, keep)]

\* df.reset_index(drop = True)
reset_index(df) == [df EXCEPT !.index = [i \in 1..Len(df.data) |-> i - 1]]

\* pre_cleansing, with reset_index() keeping the old index as a column.
pre_cleansing_index_kept(df) ==
    LET d == drop_duplicates(dropna_rows(dropna_columns(df)))
        label == IF \E j \in 1..Len(d.columns) : d.columns[j] = "index"
                 THEN "level_0" ELSE "index"
    IN  [columns |-> <<label>> \o d.columns,
         index |-> [i \in 1..Len(d.data) |-> i - 1],
         data |-> [i \in 1..Len(d.data) |-> <<Cell(d.index[i])>> \o d.data[i]]]

pre_cleansing(df) ==
    reset_index(drop_duplicates(dropna_rows(dropna_columns(df))))

\* A table of nr rows and nc columns filled with data, under an index that
\* starts at first.
Table(nc, nr, first, data) ==
    [columns |-> SubSeq(ColumnLabels, 1, nc),
     index |-> [i \in 1..nr |-> i - 1 + first],
     data |-> data]

NotCleansed == [done |-> FALSE, df |-> EmptyTable]

pre_cleansing_first ==
    /\ ~pc_once.done
    /\ pc_once' = [done |-> TRUE, df |-> pre_cleansing(pc_df)]
    /\ UNCHANGED <<registryVars, rangeVars, pc_df, pc_twice, schemaVars, findVars,
                   engineVars, authVars, vaultVars,
                   helperVars>>

pre_cleansing_second ==
    /\ pc_once.done
    /\ ~pc_twice.done
    /\ pc_twice' = [done |-> TRUE, df |-> pre_cleansing(pc_once.df)]
    /\ UNCHANGED <<registryVars, rangeVars, pc_df, pc_once, schemaVars, findVars,
                   engineVars, authVars, vaultVars,
                   helperVars>>

\* ------------------------------------------------ set_schema_pd_df (pipes.py)
\* A column is known by what it holds: integers, floats with fractions,
\* strings that spell integers, strings that spell decimals, other strings.
Contents == {"int64", "float64", "text_int", "text_decimal", "text_other"}
\* column_type: int, float, str, something that is no dtype, or None.
ColumnTypes == {"int", "float", "str", "bogus", "None"}
\* column_name: a column of the dataframe, a name it does not have, or None.
ColumnNames == {"a", "b"}
EntryNames == ColumnNames \cup {"zz", "None"}

\* np.array(dataset[column_name], dtype = column_type): the content of the
\* array, or "fail" when numpy raises.
Coerce(content, column_type) ==
    CASE column_type = "int" ->
            IF content \in {"int64", "float64", "text_int"} THEN "int64"
            ELSE "fail"
      [] column_type = "float" ->
            IF content = "text_other" THEN "fail" ELSE "float64"
      [] column_type = "str" ->
            CASE content = "int64" -> "text_int"
              [] content = "float64" -> "text_decimal"
              [] OTHER -> content
      [] OTHER -> "fail"

\* The elements a schema list may hold: a dict with both keys, a dict
\* without the 'column_type' key, something that is no dict.
SchemaEntries ==
    [shape : {"dict"}, column_name : EntryNames, column_type : ColumnTypes]
    \cup [shape : {"no_type_key", "not_a_dict"}, column_name : {"None"},
          column_type : {"None"}]

\* The body of the loop for one element: the dataset it leaves and the
\* exception raised inside the try, "none" when there is none.
schema_entry(dataset, schema) ==
    IF schema.shape = "not_a_dict" THEN [exc |-> "TypeError", dataset |-> dataset]
    ELSE IF schema.shape = "no_type_key" THEN [exc |-> "KeyError", dataset |-> dataset]
    ELSE IF schema.column_name = "None" \/ schema.column_type = "None"
         THEN [exc |-> "none", dataset |-> dataset]
    ELSE IF schema.column_name \notin DOMAIN dataset
         THEN [exc |-> "KeyError", dataset |-> dataset]
    ELSE LET to == Coerce(dataset[schema.column_name], schema.column_type)
         IN  IF to = "fail" THEN [exc |-> "ValueError", dataset |-> dataset]
             ELSE [exc |-> "none",
                   dataset |-> [dataset EXCEPT ![schema.column_name] = to]]

NotReturned == [done |-> FALSE, outcome |-> "none", dataset |-> <<>>]

\* set_schema_pd_df, with one try around the whole loop: the exception of
\* one element ends the loop.
RECURSIVE set_schema_pd_df_try_around_loop(_, _)
set_schema_pd_df_try_around_loop(df, schema_list) ==
    IF schema_list = <<>>
    THEN [done |-> TRUE, outcome |-> "ok", dataset |-> df]
    ELSE LET step == schema_entry(df, Head(schema_list))
         IN  IF step.exc # "none"
             THEN [done |-> TRUE, outcome |-> "ok", dataset |-> df]
             ELSE set_schema_pd_df_try_around_loop(step.dataset, Tail(schema_list))

\* set_schema_pd_df: every exception of an element is caught inside the loop
\* and the loop goes on with the dataset as it was.
RECURSIVE set_schema_pd_df(_, _)
set_schema_pd_df(df, schema_list) ==
    IF schema_list = <<>>
    THEN [done |-> TRUE, outcome |-> "ok", dataset |-> df]
    ELSE set_schema_pd_df(schema_entry(df, Head(schema_list)).dataset,
                          Tail(schema_list))

\* Elements of the schema lists tried.
MaxEntries == 2

SchemaLists(entries) == UNION {[1..n -> SchemaEntries] : n \in 0..entries}

set_schema_pd_df_call ==
    /\ ~ss_returned.done
    /\ ss_returned' = set_schema_pd_df(ss_df, ss_schema_list)
    /\ UNCHANGED <<registryVars, rangeVars, cleansingVars, ss_df, ss_schema_list,
                   findVars, engineVars, authVars, vaultVars,
                   helperVars>>

\* ------------------------------------- SharePointDownloader.find_file (core.py)
\* Items of the document library besides the root folder.
MaxItems == 3

\* An item has the '@microsoft.graph.downloadUrl' key (a file), the 'folder'
\* key and no download url (a folder), or neither.
ItemKinds == {"file", "folder", "other"}
ItemNames == {"target", "other"}
target_file_name == "target"
\* The root folder; the items are 1..Len(ff_tree) and their 'id' is their
\* number, so that no id is falsy.
root_folder_id == 0
None == 0

\* The finite trees: every item lies in the root or in a folder listed
\* before it.
FolderTrees(items) ==
    UNION {{t \in [1..n -> [parent : 0..(items - 1), kind : ItemKinds,
                            name : ItemNames]] :
                \A i \in 1..n :
                    /\ t[i].parent < i
                    /\ t[i].parent # root_folder_id => t[t[i].parent].kind = "folder"}
           : n \in 0..items}

\* folder_result['value'] for a folder: its children, in the order listed.
RECURSIVE ChildrenUpTo(_, _, _)
ChildrenUpTo(tree, folder_id, n) ==
    IF n = 0 THEN <<>>
    ELSE IF tree[n].parent = folder_id
         THEN Append(ChildrenUpTo(tree, folder_id, n - 1), n)
         ELSE ChildrenUpTo(tree, folder_id, n - 1)

\* The listing read from its last item to its first.
Children_last_first(tree, folder_id) ==
    LET listing == ChildrenUpTo(tree, folder_id, Len(tree))
    IN  [k \in 1..Len(listing) |-> listing[Len(listing) + 1 - k]]

Children(tree, folder_id) == ChildrenUpTo(tree, folder_id, Len(tree))

\* The test for a file, without the look at the download url.
IsValidFile_unchecked(item) == TRUE

\* '@microsoft.graph.downloadUrl' in item
IsValidFile(item) == item.kind = "file"

Frame(folder_id) == [folder |-> folder_id, phase |-> "request", i |-> 0]
NoRet == [set |-> FALSE, value |-> None]
NotFound == [done |-> FALSE, value |-> None]
Top == ff_stack[Len(ff_stack)]
SetTop(frame) == [ff_stack EXCEPT ![Len(ff_stack)] = frame]

\* A return of the call on top: to the caller's frame, or out of the
\* outermost call.
Return(value) ==
    IF Len(ff_stack) = 1
    THEN /\ ff_stack' = <<>>
         /\ ff_ret' = NoRet
         /\ ff_result' = [done |-> TRUE, value |-> value]
    ELSE /\ ff_stack' = SubSeq(ff_stack, 1, Len(ff_stack) - 1)
         /\ ff_ret' = [set |-> TRUE, value |-> value]
         /\ UNCHANGED ff_result

\* requests.get(folder_url) and .json(): the listing arrives, or an
\* exception is caught by the except clause, which returns nothing.
find_file_request ==
    /\ ff_stack # <<>>
    /\ Top.phase = "request"
    /\ ff_listed' = [ff_listed EXCEPT ![Top.folder] = @ + 1]
    /\ \E answered \in BOOLEAN :
        IF answered
        THEN /\ ff_stack' = SetTop([Top EXCEPT !.phase = "loop", !.i = 1])
             /\ UNCHANGED <<ff_ret, ff_result, ff_unanswered>>
        ELSE /\ Return(None)
             /\ ff_unanswered' = ff_unanswered \cup {Top.folder}
    /\ UNCHANGED <<registryVars, rangeVars, cleansingVars, schemaVars, engineVars, authVars, vaultVars, helperVars,
                   ff_tree, dl>>

\* One item of the for loop.
find_file_item ==
    /\ ff_stack # <<>>
    /\ Top.phase = "loop"
    /\ Top.i <= Len(Children(ff_tree, Top.folder))
    /\ LET id == Children(ff_tree, Top.folder)[Top.i]
           item == ff_tree[id]
       IN  IF IsValidFile(item)
           THEN IF item.name = target_file_name
                THEN Return(id)
                ELSE /\ ff_stack' = SetTop([Top EXCEPT !.i = @ + 1])
                     /\ UNCHANGED <<ff_ret, ff_result>>
           ELSE IF item.kind = "folder"
                THEN /\ ff_stack' = Append(SetTop([Top EXCEPT !.phase = "wait"]),
                                           Frame(id))
                     /\ UNCHANGED <<ff_ret, ff_result>>
                ELSE /\ ff_stack' = SetTop([Top EXCEPT !.i = @ + 1])
                     /\ UNCHANGED <<ff_ret, ff_result>>
    /\ UNCHANGED <<registryVars, rangeVars, cleansingVars, schemaVars, engineVars, authVars, vaultVars, helperVars,
                   ff_tree, ff_listed, ff_unanswered, dl>>

\* file_id = self.find_file(...); if file_id: return file_id
find_file_resume ==
    /\ ff_stack # <<>>
    /\ Top.phase = "wait"
    /\ ff_ret.set
    /\ IF ff_ret.value # None
       THEN Return(ff_ret.value)
       ELSE /\ ff_stack' = SetTop([Top EXCEPT !.phase = "loop", !.i = @ + 1])
            /\ ff_ret' = NoRet
            /\ UNCHANGED ff_result
    /\ UNCHANGED <<registryVars, rangeVars, cleansingVars, schemaVars, engineVars, authVars, vaultVars, helperVars,
                   ff_tree, ff_listed, ff_unanswered, dl>>

\* The loop is over: return None.
find_file_return_none ==
    /\ ff_stack # <<>>
    /\ Top.phase = "loop"
    /\ Top.i > Len(Children(ff_tree, Top.folder))
    /\ Return(None)
    /\ UNCHANGED <<registryVars, rangeVars, cleansingVars, schemaVars, engineVars, authVars, vaultVars, helperVars,
                   ff_tree, ff_listed, ff_unanswered, dl>>

\* --------------------------------- SharePointDownloader.download_file (core.py)
\* The call before it starts; how it ended is one of "return" and "raise",
\* with the exception its except clause caught and whether a file was
\* fetched.
NotDownloaded ==
    [pc |-> "ready", outcome |-> "none", caught |-> "none", downloaded |-> FALSE,
     folder_match |-> FALSE, requests_ok |-> FALSE, ids |-> "none"]

\* except Exception as e: print(f'Error: {e}') -- the exception is printed
\* and the function goes on to its end, returning None.
download_file_except(exc) ==
    [dl EXCEPT !.pc = "returned", !.outcome = "return", !.caught = exc,
               !.downloaded = FALSE]

\* get_drive_id: what the call returns. root_folder_id is assigned only
\* inside `if folder_match:`; without it the return statement reads an
\* unbound local, and the UnboundLocalError, like a failing request, is
\* printed by the except clause, after which the function returns None.
get_drive_id(folder_match, requests_ok) ==
    IF requests_ok /\ folder_match THEN "pair" ELSE "None"

\* get_token and `drive_id, root_folder_id = self.get_drive_id(...)`, then
\* the call of find_file at the root folder. Unpacking None raises
\* TypeError; it and a failing get_token are caught by the except clause.
download_file_begin ==
    /\ dl.pc = "ready"
    /\ \E token_ok, requests_ok \in BOOLEAN :
        LET ids == get_drive_id(dl.folder_match, requests_ok)
        IN  IF ~token_ok
            THEN /\ dl' = download_file_except("Exception")
                 /\ UNCHANGED ff_stack
            ELSE IF ids = "pair"
            THEN /\ dl' = [dl EXCEPT !.pc = "searching", !.ids = ids,
                                     !.requests_ok = requests_ok]
                 /\ ff_stack' = <<Frame(root_folder_id)>>
            ELSE /\ dl' = [download_file_except("TypeError") EXCEPT
                               !.ids = ids, !.requests_ok = requests_ok]
                 /\ UNCHANGED ff_stack
    /\ UNCHANGED <<registryVars, rangeVars, cleansingVars, schemaVars, engineVars, authVars, vaultVars, helperVars,
                   ff_tree, ff_listed, ff_unanswered, ff_ret, ff_result>>

\* if file_id: fetch the item and its content; else raise
\* InvalidInputsError("File not found.") -- inside the try.
download_file_end ==
    /\ dl.pc = "searching"
    /\ ff_result.done
    /\ \E fetched \in BOOLEAN :
        dl' = IF ff_result.value = None
              THEN download_file_except("InvalidInputsError")
              ELSE IF fetched
              THEN [dl EXCEPT !.pc = "returned", !.outcome = "return",
                              !.caught = "none", !.downloaded = TRUE]
              ELSE download_file_except("Exception")
    /\ UNCHANGED <<registryVars, rangeVars, cleansingVars, schemaVars, engineVars, authVars, vaultVars, helperVars,
                   ff_tree, ff_stack, ff_listed, ff_unanswered, ff_ret,
                   ff_result>>

\* ------------------------- SQLiteConnection.create_engine, the path (core.py)
\* A path is a sequence of characters; the scheme prefix 'sqlite:///' is kept
\* as one element, which is neither '.' nor '/'.
PathChars == {".", "/", "a"}
Scheme == "sqlite:///"
\* Characters of the paths tried, and create_engine calls on one connection.
MaxPathLen == 3
MaxEngineCalls == 2

\* self.file_path[:2] == './'
StartsWithDotSlash(path) == Len(path) >= 2 /\ path[1] = "." /\ path[2] = "/"

\* The body of create_engine on self.file_path: the file_path it leaves and
\* whether it raised. Both slices assign self.file_path before the next
\* statement runs; file_path[0] of an empty string raises IndexError; url_ok
\* is whether sqlalchemy's create_engine accepts the URL.
create_engine_path(file_path, url_ok) ==
    LET p1 == IF StartsWithDotSlash(file_path) THEN Tail(Tail(file_path))
              ELSE file_path
    IN  IF p1 = <<>>
        THEN [outcome |-> "raise", exc |-> "InvalidInputsError",
              file_path |-> p1, engine |-> <<>>]
        ELSE LET p2 == IF Head(p1) = "/" THEN Tail(p1) ELSE p1
                 url == <<Scheme>> \o p2
             IN  IF url_ok
                 THEN [outcome |-> "ok", exc |-> "none", file_path |-> url,
                       engine |-> url]
                 ELSE [outcome |-> "raise", exc |-> "InvalidInputsError",
                       file_path |-> url, engine |-> <<>>]

\* One call of create_engine on the connection.
SQLiteConnection_create_engine ==
    /\ se_calls < MaxEngineCalls
    /\ se_calls' = se_calls + 1
    /\ \E url_ok \in BOOLEAN :
        LET r == create_engine_path(se_file_path, url_ok)
        IN  /\ se_file_path' = r.file_path
            /\ se_engine' = IF r.outcome = "ok" THEN r.engine ELSE se_engine
            /\ se_successes' = IF r.outcome = "ok" THEN se_successes + 1
                               ELSE se_successes
    /\ UNCHANGED <<registryVars, rangeVars, cleansingVars, schemaVars, findVars,
                   se_path, authVars, vaultVars,
                   helperVars>>

\* ------------- GCPBigQueryConnection.manual_authentication, step by step
\* proc.communicate(timeout = 15): the seconds the call waits.
timeout == 15

\* The call before its first statement: whether self.project was assigned
\* by __init__, no client, no subprocess.
AuthStart(project) ==
    [pc |-> "default", project |-> project, bqclient |-> FALSE,
     bqstorageclient |-> FALSE, proc |-> "none", waited |-> 0,
     default_failed |-> FALSE, exc |-> "none"]

\* communicate(timeout = 15) without the timeout: the wait never ends by
\* itself.
TimeoutExpired_never(waited) == FALSE

\* communicate raises TimeoutExpired once the wait has lasted `timeout`.
TimeoutExpired(waited) == waited >= timeout

\* try: google.auth.default, bigquery.Client, BigQueryReadClient. What was
\* assigned before the failing statement stays assigned.
ma_default_credentials ==
    /\ ma.pc = "default"
    /\ \E fail \in AuthFailPoints :
        ma' = CASE fail = "none" ->
                    [ma EXCEPT !.pc = "returned", !.project = TRUE,
                               !.bqclient = TRUE, !.bqstorageclient = TRUE]
                [] fail = "default" ->
                    [ma EXCEPT !.pc = "Popen", !.default_failed = TRUE]
                [] fail = "Client" ->
                    [ma EXCEPT !.pc = "Popen", !.default_failed = TRUE,
                               !.project = TRUE]
                [] OTHER ->
                    [ma EXCEPT !.pc = "Popen", !.default_failed = TRUE,
                               !.project = TRUE, !.bqclient = TRUE]
    /\ ma_log' = Append(ma_log, "default")
    /\ UNCHANGED exceptAuth

\* proc = Popen(["gcloud", "auth", "application-default", "login"]): the
\* subprocess runs, or Popen raises and the outer except passes.
ma_Popen ==
    /\ ma.pc = "Popen"
    /\ \E started \in BOOLEAN :
        ma' = IF started THEN [ma EXCEPT !.pc = "communicate", !.proc = "running"]
              ELSE [ma EXCEPT !.pc = "Client"]
    /\ ma_log' = Append(ma_log, "Popen")
    /\ UNCHANGED exceptAuth

\* The login subprocess ends by itself.
ma_proc_exits ==
    /\ ma.proc = "running"
    /\ ma' = [ma EXCEPT !.proc = "exited"]
    /\ UNCHANGED <<ma_log, exceptAuth>>

\* One second of proc.communicate(timeout = 15) goes by.
ma_communicate_waits ==
    /\ ma.pc = "communicate"
    /\ ma.proc = "running"
    /\ ma.waited < timeout
    /\ ma' = [ma EXCEPT !.waited = @ + 1]
    /\ UNCHANGED <<ma_log, exceptAuth>>

\* proc.communicate(timeout = 15) ends: with the output of a subprocess
\* that has exited, with TimeoutExpired, or with another exception; both
\* handlers go on to proc.kill().
ma_communicate ==
    /\ ma.pc = "communicate"
    /\ \/ /\ ma.proc = "exited"
          /\ ma' = [ma EXCEPT !.pc = "Client"]
       \/ /\ ma.proc = "running"
          /\ TimeoutExpired(ma.waited)
          /\ ma' = [ma EXCEPT !.pc = "kill"]
       \/ /\ ma.waited < timeout
          /\ ma' = [ma EXCEPT !.pc = "kill", !.exc = "Exception"]
    /\ ma_log' = Append(ma_log, "communicate")
    /\ UNCHANGED exceptAuth

\* proc.kill(), then communicate() on the killed subprocess and the print;
\* an exception in these is passed by the outer except.
ma_kill ==
    /\ ma.pc = "kill"
    /\ ma' = [ma EXCEPT !.pc = "Client", !.proc = "killed", !.exc = "none"]
    /\ ma_log' = Append(ma_log, "kill")
    /\ UNCHANGED exceptAuth

\* try: self.bqclient = bigquery.Client(project = self.project)
\* except: raise InvalidInputsError -- reading self.project fails when it
\* was never assigned.
ma_Client ==
    /\ ma.pc = "Client"
    /\ \E retry_ok \in BOOLEAN :
        ma' = IF ma.project /\ retry_ok
              THEN [ma EXCEPT !.pc = "returned", !.bqclient = TRUE]
              ELSE [ma EXCEPT !.pc = "raised", !.exc = "InvalidInputsError"]
    /\ ma_log' = Append(ma_log, "Client")
    /\ UNCHANGED exceptAuth

\* -------------------- GCPBigQueryConnection.vault_authentication, the prompts
\* An argument is None, the empty string, or a value.
VaultPaths == {"None", "", "secret/path"}
AppRoles == {"None", "", "role"}
AppSecrets == {"None", "", "secret"}
\* What the operator may type at the three prompts.
TypedValues ==
    [vault_secret_path : {"typed/path", "typed/path2"},
     app_role : {"typed_role", "typed_role2"},
     app_secret : {"typed_secret", "typed_secret2"}]

\* (x is None) | (x == '')
Blank(x) == x \in {"None", ""}

NotPassed ==
    [done |-> FALSE, vault_secret_path |-> "None", app_role |-> "None",
     app_secret |-> "None"]

\* The three ifs that open vault_authentication, and the arguments of the
\* get_vault_credentials call after them. The third if assigns what getpass
\* returns to vault_secret_path.
vault_authentication_arguments(given, typed) ==
    LET path1 == IF Blank(given.vault_secret_path) THEN typed.vault_secret_path
                 ELSE given.vault_secret_path
        role1 == IF Blank(given.app_role) THEN typed.app_role
                 ELSE given.app_role
        path2 == IF Blank(given.app_secret) THEN typed.app_secret ELSE path1
    IN  [done |-> TRUE, vault_secret_path |-> path2, app_role |-> role1,
         app_secret |-> given.app_secret]

vault_authentication_call ==
    /\ ~va_passed.done
    /\ va_passed' = vault_authentication_arguments(va_given, va_typed)
    /\ UNCHANGED <<exceptVault, va_given, va_typed>>

\* ------------------------------- load_pandas_dataframe, the dispatch (pipes.py)
\* A path is the sequence of its characters.
Slash == <<"/">>
Dot == <<".">>
\* The starts of the paths tried: www.h/t, www.h, http://h/t, https://h/t
\* and d/t, each with and without a slash in front.
PathStems ==
    {<<"w", "w", "w", ".", "h", "/", "t">>,
     <<"w", "w", "w", ".", "h">>,
     <<"h", "t", "t", "p", ":", "/", "/", "h", "/", "t">>,
     <<"h", "t", "t", "p", "s", ":", "/", "/", "h", "/", "t">>,
     <<"d", "/", "t">>}

\* ['xls', 'xlsx', 'xlsm', 'xlsb', 'odf', 'ods', 'odt', 'json', 'txt', 'csv',
\*  'html']
ListedExtensions ==
    {<<"x", "l", "s">>, <<"x", "l", "s", "x">>, <<"x", "l", "s", "m">>,
     <<"x", "l", "s", "b">>, <<"o", "d", "f">>, <<"o", "d", "s">>,
     <<"o", "d", "t">>, <<"j", "s", "o", "n">>, <<"t", "x", "t">>,
     <<"c", "s", "v">>, <<"h", "t", "m", "l">>}

\* The endings tried: a listed extension, 'php', or none.
PathEndings ==
    {Dot \o e : e \in ListedExtensions \cup {<<"p", "h", "p">>}} \cup {<<>>}

JoinedPaths ==
    {lead \o stem \o ending :
        lead \in {<<>>, Slash}, stem \in PathStems, ending \in PathEndings}

\* The largest i <= n with path[i] = ch, or 0.
RECURSIVE LastIndex(_, _, _)
LastIndex(path, ch, n) ==
    IF n = 0 THEN 0
    ELSE IF path[n] = ch THEN n ELSE LastIndex(path, ch, n - 1)

\* os.path.splitext(file_path)[1][1:]: what follows the last dot of the last
\* component, a dot that opens the component not counting.
splitext(path) ==
    LET sep == LastIndex(path, "/", Len(path))
        dot == LastIndex(path, ".", Len(path))
    IN  IF dot > sep + 1 THEN SubSeq(path, dot + 1, Len(path)) ELSE <<>>

\* file_path[:n]
Slice(path, n) == SubSeq(path, 1, IF n < Len(path) THEN n ELSE Len(path))

\* (file_path[:3] == 'www') | (file_path[:4] == '/www') |
\* (file_path[:4] == 'http') | (file_path[:5] == '/http')
LooksLikeWebpage(path) ==
    \/ Slice(path, 3) = <<"w", "w", "w">>
    \/ Slice(path, 4) = <<"/", "w", "w", "w">>
    \/ Slice(path, 4) = <<"h", "t", "t", "p">>
    \/ Slice(path, 5) = <<"/", "h", "t", "t", "p">>

\* The reader an extension selects: the if/elif chain that follows.
ReaderOf(file_extension) ==
    CASE file_extension \in {<<"t", "x", "t">>, <<"c", "s", "v">>} -> "read_csv"
      [] file_extension = <<"j", "s", "o", "n">> -> "json_normalize"
      [] file_extension = <<"h", "t", "m", "l">> -> "read_html"
      [] OTHER -> "read_excel"

NotLoaded == [done |-> FALSE, reader |-> "none", file_path |-> <<>>]

\* The extension, the webpage test made only when the extension is not in
\* the list, and the reader the file_path is handed to.
load_pandas_dataframe(path) ==
    LET file_extension == splitext(path)
    IN  IF file_extension \notin ListedExtensions /\ LooksLikeWebpage(path)
        THEN [done |-> TRUE, reader |-> ReaderOf(<<"h", "t", "m", "l">>),
              file_path |-> IF path[1] = "/" THEN Tail(path) ELSE path]
        ELSE [done |-> TRUE, reader |-> ReaderOf(file_extension),
              file_path |-> path]

load_pandas_dataframe_call ==
    /\ ~lp_loaded.done
    /\ lp_loaded' = load_pandas_dataframe(lp_path)
    /\ UNCHANGED <<exceptHelper, sheetVars, queryVars, lp_path>>

\* ------------------------------------ IngestExcelTables.load_dfs (core.py)
\* Worksheets of the workbook, tables declared on one worksheet, and
\* load_dfs calls on one object.
MaxSheets == 2
MaxTables == 2
MaxLoads == 2

SheetTitles == <<"Sheet1", "Sheet2", "Sheet3">>
TableNames == <<"Table1", "Table2", "Table3">>
TableRefs == <<"A1:B2", "D1:E2", "G1:H2">>

\* ws.tables of the worksheet at place s with n declared tables: the names
\* in the order declared, each with its ref. A table name is used once in a
\* workbook.
TablesOf(s, n) ==
    [t \in 1..n |-> [name |-> TableNames[t], sheet |-> SheetTitles[s],
                     ref |-> TableRefs[t]]]

\* wb.worksheets: titles differ from sheet to sheet.
Workbooks(sheets, tables) ==
    UNION {{[s \in 1..n |-> [title |-> SheetTitles[s],
                             tables |-> TablesOf(s, count[s])]] :
                count \in [1..n -> 0..tables]}
           : n \in 0..sheets}

\* What read_full_sheet and read_table give, by what was read.
read_full_sheet(sheet_name) ==
    [read |-> "read_full_sheet", sheet_name |-> sheet_name, tab_range |-> "none"]
read_table(sheet_name, ref) ==
    [read |-> "read_table", sheet_name |-> sheet_name, tab_range |-> ref]

\* for table_name, tab_values in zip(ws.tables, ws.tables.values()): one
\* record per table, from table t of the sheet on.
RECURSIVE TablesLoop(_, _)
TablesLoop(ws, t) ==
    IF t > Len(ws.tables) THEN <<>>
    ELSE <<[sheet |-> ws.title, table |-> ws.tables[t].name,
            df |-> read_table(ws.title, ws.tables[t].ref)]>>
         \o TablesLoop(ws, t + 1)

\* for ws in self.worksheets: the records in the order appended, from
\* worksheet s on.
RECURSIVE WorksheetsLoop(_, _)
WorksheetsLoop(worksheets, s) ==
    IF s > Len(worksheets) THEN <<>>
    ELSE (IF Len(worksheets[s].tables) = 0
          THEN <<[sheet |-> worksheets[s].title, table |-> worksheets[s].title,
                  df |-> read_full_sheet(worksheets[s].title)]>>
          ELSE TablesLoop(worksheets[s], 1))
         \o WorksheetsLoop(worksheets, s + 1)

\* load_dfs with a list of its own: loaded_dfs = [] in place of
\* loaded_dfs = self.loaded_dfs.
load_dfs_fresh_list(loaded_dfs, worksheets, fail_at) ==
    LET appended == WorksheetsLoop(worksheets, 1)
    IN  IF fail_at = 0 \/ fail_at > Len(appended)
        THEN [outcome |-> "return", loaded_dfs |-> appended]
        ELSE [outcome |-> "raise", loaded_dfs |-> loaded_dfs]

\* load_dfs: loaded_dfs names the list self.loaded_dfs names, so every
\* append is on the object at once; the read numbered fail_at raises (0: no
\* read raises) and the records appended before it stay.
load_dfs(loaded_dfs, worksheets, fail_at) ==
    LET appended == WorksheetsLoop(worksheets, 1)
    IN  IF fail_at = 0 \/ fail_at > Len(appended)
        THEN [outcome |-> "return", loaded_dfs |-> loaded_dfs \o appended]
        ELSE [outcome |-> "raise",
              loaded_dfs |-> loaded_dfs \o SubSeq(appended, 1, fail_at - 1)]

\* One call of load_dfs on the object.
IngestExcelTables_load_dfs ==
    /\ ld_returns + ld_raises < MaxLoads
    /\ \E fail_at \in 0..(MaxSheets * MaxTables) :
        LET r == load_dfs(ld_loaded_dfs, ld_worksheets, fail_at)
        IN  /\ ld_before' = ld_loaded_dfs
            /\ ld_loaded_dfs' = r.loaded_dfs
            /\ ld_outcome' = r.outcome
            /\ ld_returns' = IF r.outcome = "return" THEN ld_returns + 1
                             ELSE ld_returns
            /\ ld_raises' = IF r.outcome = "raise" THEN ld_raises + 1
                            ELSE ld_raises
    /\ UNCHANGED <<exceptHelper, loadVars, queryVars, ld_worksheets>>

\* ingestion_pipeline: self = self.load_dfs(has_header), then the export
\* when asked for; the export reads self.loaded_dfs and may raise.
ingestion_pipeline ==
    /\ ld_returns + ld_raises < MaxLoads
    /\ \E fail_at \in 0..(MaxSheets * MaxTables), export_excel \in BOOLEAN,
          export_ok \in BOOLEAN :
        LET r == load_dfs(ld_loaded_dfs, ld_worksheets, fail_at)
        IN  /\ ld_before' = ld_loaded_dfs
            /\ ld_loaded_dfs' = r.loaded_dfs
            /\ ld_outcome' = IF r.outcome = "return" /\ export_excel /\ ~export_ok
                             THEN "raise_after_load" ELSE r.outcome
            /\ ld_returns' = IF r.outcome = "return" THEN ld_returns + 1
                             ELSE ld_returns
            /\ ld_raises' = IF r.outcome = "raise" THEN ld_raises + 1
                            ELSE ld_raises
    /\ UNCHANGED <<exceptHelper, loadVars, queryVars, ld_worksheets>>

\* ------- GCPBigQueryConnection.update_specific_value_from_column_on_table,
\* the statement (core.py)
\* A value has the type of the Python object and the text str() gives it.
Values ==
    {[type |-> "str", text |-> "a"], [type |-> "str", text |-> "7"],
     [type |-> "int", text |-> "7"], [type |-> "int", text |-> "8"],
     [type |-> "float", text |-> "7.5"], [type |-> "bool", text |-> "True"]}
Columns == {"col_a", "col_b"}
Tables == {"t"}

NoArguments ==
    [table |-> "none", column |-> "none",
     old_value |-> [type |-> "none", text |-> ""],
     updated_value |-> [type |-> "none", text |-> ""]]
NoQuery == <<>>

\* A literal of the statement: the text between single quotes, or bare.
Quoted(value) == <<"'", value.text, "'">>
Bare(value) == <<value.text>>

\* The f-string, piece by piece.
UpdateStatement(table, column, updated_literal, old_literal) ==
    <<"UPDATE", table, "SET", column, "=">> \o updated_literal
    \o <<"WHERE", column, "=">> \o old_literal

\* if ((type(old_value) == str)|(type(updated_value) == str)): both values
\* between quotes; else: both bare.
update_query(table, column, old_value, updated_value) ==
    IF old_value.type = "str" \/ updated_value.type = "str"
    THEN UpdateStatement(table, column, Quoted(updated_value), Quoted(old_value))
    ELSE UpdateStatement(table, column, Bare(updated_value), Bare(old_value))

\* The statement is built as the method begins.
update_specific_value_from_column_on_table_query ==
    /\ uq_query = NoQuery
    /\ uq_query' = update_query(uq_args.table, uq_args.column,
                                uq_args.old_value, uq_args.updated_value)
    /\ UNCHANGED <<exceptHelper, loadVars, sheetVars, uq_args>>

\* ----------------------------------------------------------- specification
RegistryInit ==
    /\ persistent = TRUE
    /\ slots = [s \in SlotNames |-> Unset]
    /\ heap = <<>>
    /\ wh = [views |-> {}]
    /\ last = NoCall
    /\ prev = Brief(NoCall)
    /\ calls = 0

RangeIdle ==
    /\ tab_parts = [L1 |-> <<>>, R1 |-> <<>>, colon |-> FALSE, L2 |-> <<>>,
                    R2 |-> <<>>]
    /\ tab_range = <<>>
    /\ table_parameters = NoParameters

CleansingIdle ==
    /\ pc_df = EmptyTable
    /\ pc_once = NotCleansed
    /\ pc_twice = NotCleansed

VaultIdle ==
    /\ va_given = [vault_secret_path |-> "None", app_role |-> "None",
                   app_secret |-> "None"]
    /\ va_typed = [vault_secret_path |-> "typed/path", app_role |-> "typed_role",
                   app_secret |-> "typed_secret"]
    /\ va_passed = NotPassed

LoadIdle ==
    /\ lp_path = <<>>
    /\ lp_loaded = NotLoaded

SheetIdle ==
    /\ ld_worksheets = <<>>
    /\ ld_loaded_dfs = <<>>
    /\ ld_before = <<>>
    /\ ld_outcome = "none"
    /\ ld_returns = 0
    /\ ld_raises = 0

QueryIdle ==
    /\ uq_args = NoArguments
    /\ uq_query = NoQuery

HelperIdle == LoadIdle /\ SheetIdle /\ QueryIdle

AuthIdle ==
    /\ ma = [AuthStart(FALSE) EXCEPT !.pc = "idle"]
    /\ ma_log = <<>>

EngineIdle ==
    /\ se_path = <<>>
    /\ se_file_path = <<>>
    /\ se_engine = <<>>
    /\ se_successes = 0
    /\ se_calls = 0

FindIdle ==
    /\ ff_tree = <<>>
    /\ ff_stack = <<>>
    /\ ff_listed = [f \in 0..MaxItems |-> 0]
    /\ ff_unanswered = {}
    /\ ff_ret = NoRet
    /\ ff_result = NotFound
    /\ dl = NotDownloaded

SchemaIdle ==
    /\ ss_df = [c \in ColumnNames |-> "int64"]
    /\ ss_schema_list = <<>>
    /\ ss_returned = NotReturned

Init ==
    /\ RegistryInit
    /\ RangeIdle
    /\ CleansingIdle
    /\ SchemaIdle
    /\ FindIdle
    /\ EngineIdle
    /\ AuthIdle
    /\ VaultIdle
    /\ HelperIdle

Next ==
    \/ mount_storage_system
    \/ upload_to_or_download_file_from_colab
    \/ json_obj_to_pandas_dataframe
    \/ manipulate_sqlite_db
    \/ bigquery_pipeline
    \/ sqlserver_pipeline
    \/ SQLServerConnection_new
    \/ SQLServerConnection_call
    \/ SetPersistent

Spec == Init /\ [][Next]_vars

\* get_table_parameters applied to one range string.
InitRange ==
    /\ RegistryInit
    /\ tab_parts \in RangeParts(MaxLetters, MaxDigits)
    /\ tab_range = RangeString(tab_parts)
    /\ table_parameters = NoParameters
    /\ CleansingIdle
    /\ SchemaIdle
    /\ FindIdle
    /\ EngineIdle
    /\ AuthIdle
    /\ VaultIdle
    /\ HelperIdle

NextRange == get_table_parameters_call

SpecRange == InitRange /\ [][NextRange]_vars

\* pre_cleansing applied to one table, and again to what it gave.
InitCleansing ==
    /\ RegistryInit
    /\ RangeIdle
    /\ \E nc \in 0..MaxCols, nr \in 0..MaxRows, first \in {0, 1} :
            \E data \in [1..nr -> [1..nc -> Cells]] :
                pc_df = Table(nc, nr, first, data)
    /\ pc_once = NotCleansed
    /\ pc_twice = NotCleansed
    /\ SchemaIdle
    /\ FindIdle
    /\ EngineIdle
    /\ AuthIdle
    /\ VaultIdle
    /\ HelperIdle

NextCleansing ==
    \/ pre_cleansing_first
    \/ pre_cleansing_second

SpecCleansing == InitCleansing /\ [][NextCleansing]_vars

\* set_schema_pd_df applied to one dataframe and one schema list.
InitSchema ==
    /\ RegistryInit
    /\ RangeIdle
    /\ CleansingIdle
    /\ ss_df \in [ColumnNames -> Contents]
    /\ ss_schema_list \in SchemaLists(MaxEntries)
    /\ ss_returned = NotReturned
    /\ FindIdle
    /\ EngineIdle
    /\ AuthIdle
    /\ VaultIdle
    /\ HelperIdle

NextSchema == set_schema_pd_df_call

SpecSchema == InitSchema /\ [][NextSchema]_vars

\* download_file on one tree, with folder_match given or left None; a
\* call in progress goes on to its next statement.
InitFind ==
    /\ RegistryInit
    /\ RangeIdle
    /\ CleansingIdle
    /\ SchemaIdle
    /\ ff_tree \in FolderTrees(MaxItems)
    /\ ff_stack = <<>>
    /\ ff_listed = [f \in 0..MaxItems |-> 0]
    /\ ff_unanswered = {}
    /\ ff_ret = NoRet
    /\ ff_result = NotFound
    /\ \E folder_match \in BOOLEAN :
        dl = [NotDownloaded EXCEPT !.folder_match = folder_match]
    /\ EngineIdle
    /\ AuthIdle
    /\ VaultIdle
    /\ HelperIdle

NextFind ==
    \/ download_file_begin
    \/ download_file_end
    \/ find_file_request
    \/ find_file_item
    \/ find_file_resume
    \/ find_file_return_none

SpecFind == InitFind /\ [][NextFind]_vars /\ WF_vars(NextFind)

\* create_engine called again and again on one SQLiteConnection(path).
InitEngine ==
    /\ RegistryInit
    /\ RangeIdle
    /\ CleansingIdle
    /\ SchemaIdle
    /\ FindIdle
    /\ \E n \in 0..MaxPathLen : se_path \in [1..n -> PathChars]
    /\ se_file_path = se_path
    /\ se_engine = <<>>
    /\ se_successes = 0
    /\ se_calls = 0
    /\ AuthIdle
    /\ VaultIdle
    /\ HelperIdle

NextEngine == SQLiteConnection_create_engine

SpecEngine == InitEngine /\ [][NextEngine]_vars

\* One call of manual_authentication on a connector; the call goes on to its
\* next statement and the clock of the wait advances, while nothing makes
\* the login subprocess end.
InitAuth ==
    /\ RegistryInit
    /\ RangeIdle
    /\ CleansingIdle
    /\ SchemaIdle
    /\ FindIdle
    /\ EngineIdle
    /\ \E project \in BOOLEAN : ma = AuthStart(project)
    /\ ma_log = <<>>
    /\ VaultIdle
    /\ HelperIdle

AuthSteps ==
    \/ ma_default_credentials
    \/ ma_Popen
    \/ ma_communicate_waits
    \/ ma_communicate
    \/ ma_kill
    \/ ma_Client

NextAuth == AuthSteps \/ ma_proc_exits

SpecAuth == InitAuth /\ [][NextAuth]_vars /\ WF_vars(AuthSteps)

\* vault_authentication called with three arguments, the operator typing
\* at the prompts that open.
InitVault ==
    /\ RegistryInit
    /\ RangeIdle
    /\ CleansingIdle
    /\ SchemaIdle
    /\ FindIdle
    /\ EngineIdle
    /\ AuthIdle
    /\ va_given \in [vault_secret_path : VaultPaths, app_role : AppRoles,
                      app_secret : AppSecrets]
    /\ va_typed \in TypedValues
    /\ va_passed = NotPassed
    /\ HelperIdle

NextVault == vault_authentication_call

SpecVault == InitVault /\ [][NextVault]_vars

\* The specifications of the loaders and builders start from this.
HelperInit ==
    /\ RegistryInit
    /\ RangeIdle
    /\ CleansingIdle
    /\ SchemaIdle
    /\ FindIdle
    /\ EngineIdle
    /\ AuthIdle
    /\ VaultIdle

\* load_pandas_dataframe on one joined path.
InitLoad ==
    /\ HelperInit
    /\ SheetIdle
    /\ QueryIdle
    /\ lp_path \in JoinedPaths
    /\ lp_loaded = NotLoaded

NextLoad == load_pandas_dataframe_call

SpecLoad == InitLoad /\ [][NextLoad]_vars

\* IngestExcelTables(file_path) on one workbook, then load_dfs and
\* ingestion_pipeline called on it.
InitSheets ==
    /\ HelperInit
    /\ LoadIdle
    /\ QueryIdle
    /\ ld_worksheets \in Workbooks(MaxSheets, MaxTables)
    /\ ld_loaded_dfs = <<>>
    /\ ld_before = <<>>
    /\ ld_outcome = "none"
    /\ ld_returns = 0
    /\ ld_raises = 0

NextSheets ==
    \/ IngestExcelTables_load_dfs
    \/ ingestion_pipeline

SpecSheets == InitSheets /\ [][NextSheets]_vars

\* update_specific_value_from_column_on_table on one set of arguments.
InitQuery ==
    /\ HelperInit
    /\ LoadIdle
    /\ SheetIdle
    /\ uq_args \in [table : Tables, column : Columns, old_value : Values,
                     updated_value : Values]
    /\ uq_query = NoQuery

NextQuery == update_specific_value_from_column_on_table_query

SpecQuery == InitQuery /\ [][NextQuery]_vars

\* ------------------------------------------------------------------ claims
\* The pipeline functions whose connector the registry keeps.
ReusingFunctions ==
    {"mount_storage_system", "upload_to_or_download_file_from_colab",
     "manipulate_sqlite_db", "bigquery_pipeline"}

\* Two successful calls of one pipeline function, one right after the other.
TwoCallsInARow ==
    /\ prev.successful
    /\ Successful(last)
    /\ last.fn = prev.fn
    /\ last.fn \in ReusingFunctions

\* C1: of two sequential successful calls of mount_storage_system,
\* upload_to_or_download_file_from_colab, manipulate_sqlite_db or
\* bigquery_pipeline, with Connectors.persistent true the second constructs no
\* connector and uses the instance the first used (and manipulate_sqlite_db
\* returns the same engine object both times); with Connectors.persistent
\* false each of the two constructs a connector and the instances differ.
C1_ConnectorReuse ==
    TwoCallsInARow =>
        /\ (prev.persistent /\ last.persistent) =>
                /\ last.built = 0
                /\ last.obj = prev.obj
                /\ last.fn = "manipulate_sqlite_db" =>
                        (last.engine = prev.engine /\ last.engine # 0)
        /\ (~prev.persistent /\ ~last.persistent) =>
                /\ prev.built >= 1
                /\ last.built >= 1
                /\ last.obj # prev.obj

\* Two fetch_table calls in a row under persistence: one connector, one engine.
C1_Witness ==
    /\ TwoCallsInARow
    /\ last.fn = "manipulate_sqlite_db"
    /\ prev.persistent /\ last.persistent
    /\ last.obj = prev.obj
    /\ last.engine # 0

\* C2: when the table looked up by one of the five delete/update operations
\* reports a non-empty streaming buffer, the call raises RuntimeError and the
\* DELETE/UPDATE statement is not submitted to the client.
C2_StreamingBufferGuard ==
    (last.action \in DmlActions /\ last.buffer) =>
        /\ last.outcome = "raise"
        /\ last.exc = "RuntimeError"
        /\ ~last.stmt

C2_Witness ==
    /\ last.action = "update_entire_column_from_table"
    /\ last.buffer
    /\ last.exc = "RuntimeError"

\* C3 (as claimed): a create_new_view call on a stored, authenticated connector,
\* for a view that does not exist and with the warehouse answering every
\* request, executes the defining query, issues the create-table call and
\* leaves the view in the warehouse, so that a second call finds it.
C3_FirstCallCreatesView ==
    (/\ last.fn = "bigquery_pipeline"
     /\ last.action = "create_new_view"
     /\ last.built = 0 /\ last.obj # 0
     /\ heap[last.obj].bqclient /\ heap[last.obj].bqstorageclient
     /\ ~last.existed
     /\ last.fail = "none") =>
        /\ last.outcome = "ok"
        /\ last.queries = 1
        /\ last.creates = 1
        /\ last.view \in wh.views

\* The kind of attribute a completed call of the action stores its result
\* under, "none" for the actions that store nothing.
StoredKind(rec) ==
    CASE rec.action \in {"run_sql_query", "query_specific_tag_ip21sqlserver"} ->
            "df_query"
      [] rec.action = "get_full_table" -> "df_table"
      [] rec.action \in DmlActions -> "df_table"
      [] rec.action = "create_new_view" /\ rec.creates = 1 -> "df_view"
      [] OTHER -> "none"

\* A step in which a query call on the object id completed.
Completed(id) ==
    /\ calls' # calls
    /\ last'.obj = id
    /\ last'.outcome = "ok"
    /\ StoredKind(last') # "none"

\* C5: on every SQLServerConnection and GCPBigQueryConnection object,
\* query_counter starts at 0 and no step decreases it; a step in which a
\* run_sql_query, get_full_table, delete/update or view-creating
\* create_new_view call completes stores the result under df_query{N},
\* df_table{N} or df_view{N}, N being the counter before the call, and leaves
\* the counter at N + 1.
C5_CounterDiscipline ==
    [][\A id \in 1..Len(heap') :
         heap'[id].cls \in {"SQLServerConnection", "GCPBigQueryConnection"} =>
            LET N == IF id <= Len(heap) THEN heap[id].query_counter ELSE 0
            IN  /\ heap'[id].query_counter >= N
                /\ (id > Len(heap) /\ ~Completed(id)) =>
                        heap'[id].query_counter = 0
                /\ Completed(id) =>
                        /\ last'.n0 = N
                        /\ last'.stored = StoredKind(last')
                        /\ <<StoredKind(last'), N>> \in heap'[id].attrs
                        /\ heap'[id].query_counter = N + 1]_vars

\* The second query completed on one connector: stored under N = 1.
C5_Witness ==
    /\ last.outcome = "ok"
    /\ last.stored = "df_query"
    /\ last.n0 = 1
    /\ last.obj # 0
    /\ <<"df_query", 1>> \in heap[last.obj].attrs
    /\ heap[last.obj].query_counter = 2

\* C6: every registry slot is unset or holds a connector object of the
\* slot's class; no slot holds a query result or any other value.
C6_SlotsHoldConnectors ==
    \A s \in SlotNames :
        \/ slots[s] = Unset
        \/ /\ slots[s].kind = "object"
           /\ slots[s].id \in 1..Len(heap)
           /\ heap[slots[s].id].cls = SlotClass(s)

\* A query returned its result and the slot holds the connector.
C6_Witness ==
    /\ last.fn = "bigquery_pipeline"
    /\ last.action = "get_full_table"
    /\ last.outcome = "ok"
    /\ slots["gcp_connector"].kind = "object"

\* C7: when a bigquery_pipeline call with a recognized action returns
\* normally, Connectors.gcp_connector holds the connector the call used.
C7_ConnectorWrittenBack ==
    (/\ last.fn = "bigquery_pipeline"
     /\ last.action \in BigQueryActions
     /\ last.outcome = "ok") =>
        /\ last.obj # 0
        /\ slots["gcp_connector"] = Ref(last.obj)

\* A call that built its connector and ran a query with it.
C7_Witness ==
    /\ last.fn = "bigquery_pipeline"
    /\ last.action = "run_sql_query"
    /\ last.outcome = "ok"
    /\ last.built = 1
    /\ slots["gcp_connector"] = Ref(last.obj)

\* The range strings of C8: a non-empty run of column letters and a decimal
\* row number of at least 1 on each side of one colon.
WellFormedRange ==
    /\ tab_parts.colon
    /\ tab_parts.L1 # <<>> /\ tab_parts.L2 # <<>>
    /\ tab_parts.R1 # <<>> /\ tab_parts.R2 # <<>>
    /\ IntValue(tab_parts.R1) >= 1 /\ IntValue(tab_parts.R2) >= 1

\* C8: for a range string <L1><R1>:<L2><R2>, get_table_parameters returns
\* usecols = L1 + ':' + L2 and skiprows = R1 - 1; 'A10:BC78' gives
\* ('A:BC', 9) and 'B2:B2' gives ('B:B', 1).
C8_TableParameters ==
    table_parameters.done =>
        /\ WellFormedRange =>
                /\ table_parameters.outcome = "ok"
                /\ table_parameters.usecols =
                        tab_parts.L1 \o <<":">> \o tab_parts.L2
                /\ table_parameters.skiprows = IntValue(tab_parts.R1) - 1
        /\ tab_range = <<"A", "1", "0", ":", "B", "C", "7", "8">> =>
                /\ table_parameters.usecols = <<"A", ":", "B", "C">>
                /\ table_parameters.skiprows = 9
        /\ tab_range = <<"B", "2", ":", "B", "2">> =>
                /\ table_parameters.usecols = <<"B", ":", "B">>
                /\ table_parameters.skiprows = 1

C8_Witness ==
    /\ table_parameters.done
    /\ tab_range = <<"A", "1", "0", ":", "B", "C", "7", "8">>
    /\ table_parameters.usecols = <<"A", ":", "B", "C">>
    /\ table_parameters.skiprows = 9

\* C9: pre_cleansing applied to what pre_cleansing gave returns the same
\* table: no further row or column is removed and the row index is the same.
C9_Idempotent ==
    pc_twice.done =>
        /\ pc_twice.df.columns = pc_once.df.columns
        /\ pc_twice.df.data = pc_once.df.data
        /\ pc_twice.df.index = pc_once.df.index

\* A table from which the first application removed a column and rows, with
\* rows left for the second.
C9_Witness ==
    /\ pc_twice.done
    /\ Len(pc_once.df.columns) < Len(pc_df.columns)
    /\ Len(pc_once.df.data) < Len(pc_df.data)
    /\ Len(pc_once.df.data) >= 1
    /\ pc_once.df.index # SubSeq(pc_df.index, 1, Len(pc_once.df.index))

\* The positions of the schema list whose element is a dict naming column c
\* with a column_type.
EntriesFor(c) ==
    {i \in 1..Len(ss_schema_list) :
        /\ ss_schema_list[i].shape = "dict"
        /\ ss_schema_list[i].column_name = c
        /\ ss_schema_list[i].column_type # "None"}

\* The content of a column after the elements at the positions in among,
\* taken in list order up to position n, each recasting it when the content
\* coerces and leaving it otherwise.
RECURSIVE Recast(_, _, _)
Recast(content, among, n) ==
    IF n = 0 THEN content
    ELSE LET before == Recast(content, among, n - 1)
             to == Coerce(before, ss_schema_list[n].column_type)
         IN  IF n \in among /\ to # "fail" THEN to ELSE before

NoTargetFile ==
    \A i \in 1..Len(ff_tree) :
        ~(ff_tree[i].kind = "file" /\ ff_tree[i].name = target_file_name)

Searching == ff_stack # <<>> \/ ff_result.done

\* C4: on a tree with no file named target_file_name, find_file started at
\* the root requests the children of no folder more than once, returns None
\* when it returns, and does return.
C4_FindFileTerminates ==
    /\ []((Searching /\ NoTargetFile) =>
            /\ \A f \in 0..MaxItems : ff_listed[f] <= 1
            /\ ff_result.done => ff_result.value = None)
    /\ ((Searching /\ NoTargetFile) ~> ff_result.done)

\* A search that went through a folder inside a folder, and a folder named
\* like the target, listed each folder once and returned None.
C4_Witness ==
    /\ ff_result.done
    /\ ff_result.value = None
    /\ NoTargetFile
    /\ \E i, j \in 1..Len(ff_tree) :
            /\ ff_tree[i].kind = "folder"
            /\ ff_tree[j].kind = "folder"
            /\ ff_tree[j].parent = i
            /\ ff_tree[j].name = target_file_name
    /\ \A f \in 0..Len(ff_tree) :
            (f = root_folder_id \/ ff_tree[f].kind = "folder") => ff_listed[f] = 1

C12_DriveMounted ==
    (last.fn = "mount_storage_system" /\ last.action = "google"
        /\ last.outcome = "ok")
    => /\ last.obj # 0
       /\ slots["google_drive_connector"] = Ref(last.obj)
       /\ last.mounts >= 1

\* C13: when the search has found no file named target_file_name,
\* download_file raises InvalidInputsError to its caller and fetches nothing.
C13_NotFoundRaises ==
    (dl.pc = "returned" /\ ff_result.done /\ ff_result.value = None)
    => /\ dl.outcome = "raise"
       /\ ~dl.downloaded

\* C14: a fetch_table that fails, in building the engine or in reading the
\* table, raises InvalidInputsError and nothing else; one that returns gives
\* the table and the engine.
C14_FetchTableFailures ==
    (last.fn = "manipulate_sqlite_db" /\ last.action = "fetch_table"
        /\ last.obj # 0)
    => /\ last.outcome = "raise" => last.exc = "InvalidInputsError"
       /\ last.outcome = "ok" => last.engine # 0

\* A fetch_table on the stored connector, whose engine exists, failed in the
\* read and raised InvalidInputsError.
C14_Witness ==
    /\ last.fn = "manipulate_sqlite_db"
    /\ last.action = "fetch_table"
    /\ last.built = 0
    /\ last.obj # 0
    /\ heap[last.obj].engine # 0
    /\ last.outcome = "raise"
    /\ last.exc = "InvalidInputsError"

\* The paths the claim lets follow the scheme: p, p without a leading './',
\* and either of them without one leading '/'.
AfterScheme(path) ==
    LET a == IF StartsWithDotSlash(path) THEN Tail(Tail(path)) ELSE path
        b == IF a # <<>> /\ Head(a) = "/" THEN Tail(a) ELSE a
        c == IF path # <<>> /\ Head(path) = "/" THEN Tail(path) ELSE path
    IN  {a, b, c}

\* C15: after one or more successful create_engine calls on a connection
\* built with path p, the URL of the engine is the scheme followed by p
\* without a leading './' or a single leading '/': the scheme occurs once and
\* the rest of p is unchanged.
C15_EngineUrl ==
    se_successes >= 1 =>
        /\ se_engine # <<>>
        /\ Head(se_engine) = Scheme
        /\ Tail(se_engine) \in AfterScheme(se_path)

\* C16: manipulate_sqlite_db(action = 'update_table') on a valid path returns
\* the table and the engine (after which a fetch_table returns the rows
\* written). The path is known to be valid where the call runs on the stored
\* connector, whose engine an earlier call has built and read from.
C16_UpdateTableReturns ==
    (/\ last.fn = "manipulate_sqlite_db"
     /\ last.action = "update_table"
     /\ last.obj # 0
     /\ last.built = 0
     /\ heap[last.obj].engine # 0)
    => /\ last.outcome = "ok"
       /\ last.engine = heap[last.obj].engine

\* C17: once the insert has been made, write_data_on_bigquery_table raises
\* RuntimeError if and only if the insert reported a row error in some chunk,
\* for any number of chunks.
C17_RuntimeErrorIffRowError ==
    (last.action = "write_data_on_bigquery_table" /\ last.inserted)
    => ((last.exc = "RuntimeError")
            <=> (\E i \in 1..Len(last.errors) : last.errors[i] = 1))

Position(step) ==
    IF \E i \in 1..Len(ma_log) : ma_log[i] = step
    THEN CHOOSE i \in 1..Len(ma_log) : ma_log[i] = step
    ELSE 0

AuthEnded == ma.pc \in {"returned", "raised"}

\* C18: manual_authentication tries the default credentials first; the login
\* subprocess is started only after they failed; the call leaves the wait
\* for the subprocess only with the subprocess ended or about to be killed,
\* kills it only after the whole timeout or an exception of the wait, and
\* builds the client again only after that; it ends with the client set or
\* with InvalidInputsError, and it does end, whatever the subprocess does.
C18_ManualAuthenticationOrder ==
    /\ [](/\ ma_log # <<>> => ma_log[1] = "default"
          /\ Position("Popen") # 0 =>
                (ma.default_failed /\ Position("Popen") = 2)
          /\ Position("Client") # 0 =>
                (/\ Position("Popen") # 0
                 /\ Position("Popen") < Position("Client")
                 /\ ma.proc # "running")
          /\ ma.proc = "killed" =>
                (/\ Position("communicate") < Position("kill")
                 /\ Position("kill") < Len(ma_log) + 1)
          /\ (ma.pc = "kill" /\ ma.exc = "none") => ma.waited = timeout
          /\ ma.waited <= timeout
          /\ ma.pc = "returned" => ma.bqclient
          /\ ma.pc = "raised" => ma.exc = "InvalidInputsError")
    /\ (ma.pc = "default" ~> AuthEnded)

\* A run in which the default credentials failed, the login subprocess was
\* still running after the whole timeout and was killed, and the second
\* client construction succeeded.
C18_Witness ==
    /\ ma.pc = "returned"
    /\ ma.bqclient
    /\ ma.proc = "killed"
    /\ ma.waited = timeout
    /\ ma_log = <<"default", "Popen", "communicate", "kill", "Client">>

GivenOrTyped(piece) ==
    IF Blank(va_given[piece]) THEN va_typed[piece] ELSE va_given[piece]

\* C19: each of vault_secret_path, app_role and app_secret that is blank or
\* None is replaced by what the operator types at the prompt for that piece,
\* and the vault login is given the three given-or-typed values.
C19_PromptedValuesPassed ==
    va_passed.done =>
        /\ va_passed.vault_secret_path = GivenOrTyped("vault_secret_path")
        /\ va_passed.app_role = GivenOrTyped("app_role")
        /\ va_passed.app_secret = GivenOrTyped("app_secret")

\* C20: a delete or update that succeeded returns, and stores as df_table{N},
\* what a read of the target table gave, the read being submitted in the
\* call after the mutating statement (last.queries counts the reads a call
\* submitted, last.stmt tells that the statement was submitted).
C20_ReadAfterMutation ==
    (last.action \in DmlActions /\ last.outcome = "ok")
    => /\ last.stmt
       /\ last.stored = "df_table"
       /\ last.queries >= 1

\* C21: when the token and drive-listing requests succeed, get_drive_id
\* returns a pair of identifiers whether folder_match is given or None, and
\* download_file goes on to the recursive search.
C21_DriveIdPair ==
    (dl.pc # "ready" /\ dl.ids # "none" /\ dl.requests_ok)
    => /\ dl.ids = "pair"
       /\ ff_listed[root_folder_id] >= 1 \/ ff_stack # <<>>

\* C22: a joined path that starts with 'www', '/www', 'http' or '/http' goes
\* to the HTML reader with one leading slash removed, whatever its
\* extension; every other path goes to the reader of its extension.
C22_WebpagePathsReadAsHtml ==
    lp_loaded.done
    => IF LooksLikeWebpage(lp_path)
       THEN /\ lp_loaded.reader = "read_html"
            /\ lp_loaded.file_path =
                   (IF lp_path[1] = "/" THEN Tail(lp_path) ELSE lp_path)
       ELSE /\ lp_loaded.reader = ReaderOf(splitext(lp_path))
            /\ lp_loaded.file_path = lp_path

\* C23: a constructed GCPBigQueryConnection holds a project and a dataset
\* identifier, from the argument or from the prompt, for every later
\* operation to read.
C23_ProjectAndDatasetHeld ==
    \A id \in IdsOf("GCPBigQueryConnection") :
        heap[id].project /\ heap[id].dataset

\* The first file named target_file_name met when the items of a folder are
\* gone through in the order listed, each folder being gone through when it
\* is met; None when there is none.
RECURSIVE DepthFirst(_, _, _)
DepthFirst(tree, folder_id, from) ==
    IF from > Len(tree) THEN None
    ELSE IF tree[from].parent # folder_id THEN DepthFirst(tree, folder_id, from + 1)
    ELSE IF tree[from].kind = "file"
         THEN IF tree[from].name = target_file_name THEN from
              ELSE DepthFirst(tree, folder_id, from + 1)
    ELSE IF tree[from].kind = "folder"
         THEN LET below == DepthFirst(tree, from, from + 1)
              IN  IF below # None THEN below
                  ELSE DepthFirst(tree, folder_id, from + 1)
    ELSE DepthFirst(tree, folder_id, from + 1)

\* C24: with every children request answered, find_file returns an
\* identifier exactly when a file named target_file_name lies in the folder
\* or below it, the identifier is that of the first such file in depth-first
\* order of the listings, and the children of a file are never requested.
C24_FindFileDepthFirst ==
    /\ \A i \in 1..Len(ff_tree) :
            ff_tree[i].kind # "folder" => ff_listed[i] = 0
    /\ (ff_result.done /\ ff_unanswered = {})
       => /\ ff_result.value = DepthFirst(ff_tree, root_folder_id, 1)
          /\ ff_result.value # None <=> ~NoTargetFile
          /\ ff_result.value # None
                => /\ ff_tree[ff_result.value].kind = "file"
                   /\ ff_tree[ff_result.value].name = target_file_name

\* Two files named target_file_name, the one in a folder listed first being
\* returned although the other lies in the root.
C24_Witness ==
    /\ ff_result.done
    /\ ff_unanswered = {}
    /\ Len(ff_tree) = 3
    /\ ff_tree[1].kind = "folder" /\ ff_tree[1].parent = root_folder_id
    /\ ff_tree[2].kind = "file" /\ ff_tree[2].parent = root_folder_id
    /\ ff_tree[2].name = target_file_name
    /\ ff_tree[3].kind = "file" /\ ff_tree[3].parent = 1
    /\ ff_tree[3].name = target_file_name
    /\ ff_result.value = 3

\* C25: manipulate_sqlite_db and bigquery_pipeline called with an action they
\* do not recognize raise only if building the connector raised, and
\* otherwise return nothing, run no connector operation, and leave the
\* registry, the stored connectors and the warehouse as they were.
C25_UnrecognizedActionIsNoOp ==
    [][(/\ calls' = calls + 1
        /\ last'.fn \in {"manipulate_sqlite_db", "bigquery_pipeline"}
        /\ last'.action = "other")
       => /\ last'.outcome = "raise" => last'.built >= 1
          /\ last'.outcome = "ok"
                => /\ last'.ret = "none"
                   /\ last'.stored = "none"
                   /\ last'.queries = 0
                   /\ last'.creates = 0
                   /\ ~last'.stmt
                   /\ ~last'.inserted
                   /\ last'.engine = 0
                   /\ slots' = slots
                   /\ heap' = heap
                   /\ wh' = wh]_vars

\* With a connector in the registry and persistent off, a call with an
\* unrecognized action built a connector of its own and returned nothing,
\* the registry still holding the earlier one.
C25_Witness ==
    /\ last.fn = "bigquery_pipeline"
    /\ last.action = "other"
    /\ last.outcome = "ok"
    /\ last.built = 1
    /\ ~last.persistent
    /\ prev.successful
    /\ prev.fn = "bigquery_pipeline"
    /\ slots["gcp_connector"] = Ref(prev.obj)

\* C26: a connector whose authenticate call returned holds a warehouse
\* client, whatever already_authenticated and authentication_method were.
C26_AuthenticatedHoldsClient ==
    (last.fn = "bigquery_pipeline" /\ last.action = "connect"
        /\ last.outcome = "ok" /\ last.built >= 1)
    => heap[last.obj].bqclient

\* The records the last call appended.
Appended == SubSeq(ld_loaded_dfs, Len(ld_before) + 1, Len(ld_loaded_dfs))

\* The worksheet with the title, by its place in the workbook.
PlaceOf(title) == CHOOSE s \in 1..Len(ld_worksheets) : ld_worksheets[s].title = title

\* C27: a load_dfs call that returns keeps the records already in loaded_dfs
\* and appends, in worksheet order, one record named after the sheet for
\* every worksheet without tables and one record for every declared table
\* of every other worksheet; k calls leave k records for each.
C27_LoadDfsAppends ==
    /\ ld_outcome \in {"return", "raise_after_load"}
        => /\ SubSeq(ld_loaded_dfs, 1, Len(ld_before)) = ld_before
           /\ \A s \in 1..Len(ld_worksheets) :
                LET ws == ld_worksheets[s]
                    of_sheet == {i \in 1..Len(Appended) :
                                    Appended[i].sheet = ws.title}
                IN  IF Len(ws.tables) = 0
                    THEN /\ Cardinality(of_sheet) = 1
                         /\ \A i \in of_sheet :
                                /\ Appended[i].table = ws.title
                                /\ Appended[i].df = read_full_sheet(ws.title)
                    ELSE /\ Cardinality(of_sheet) = Len(ws.tables)
                         /\ \A t \in 1..Len(ws.tables) :
                                Cardinality(
                                    {i \in of_sheet :
                                        /\ Appended[i].table = ws.tables[t].name
                                        /\ Appended[i].df =
                                              read_table(ws.title, ws.tables[t].ref)})
                                = 1
           /\ \A i \in 1..Len(Appended) :
                \E s \in 1..Len(ld_worksheets) :
                    ld_worksheets[s].title = Appended[i].sheet
           /\ \A i, j \in 1..Len(Appended) :
                i < j => PlaceOf(Appended[i].sheet) <= PlaceOf(Appended[j].sheet)
    /\ ld_raises = 0
        => \A s \in 1..Len(ld_worksheets) :
            LET ws == ld_worksheets[s]
                per_call == IF Len(ws.tables) = 0 THEN 1 ELSE Len(ws.tables)
            IN  Cardinality({i \in 1..Len(ld_loaded_dfs) :
                                ld_loaded_dfs[i].sheet = ws.title})
                = ld_returns * per_call

\* Two calls on a workbook with a sheet without tables and a sheet with two:
\* three records from each call.
C27_Witness ==
    /\ ld_returns = 2
    /\ ld_raises = 0
    /\ Len(ld_worksheets) = 2
    /\ Len(ld_worksheets[1].tables) = 0
    /\ Len(ld_worksheets[2].tables) = 2
    /\ Len(ld_loaded_dfs) = 6
    /\ ld_loaded_dfs[4].table = "Sheet1"
    /\ ld_loaded_dfs[6].table = "Table2"

\* The literal a value is written as when it alone decides: between single
\* quotes when it is a string, bare otherwise.
OwnLiteral(value) == IF value.type = "str" THEN Quoted(value) ELSE Bare(value)

\* C28: in the statement of update_specific_value_from_column_on_table each
\* of old_value and updated_value is between single quotes exactly when it
\* is itself a string, whatever the type of the other.
C28_EachValueQuotedByItsType ==
    uq_query # NoQuery
    => uq_query = UpdateStatement(uq_args.table, uq_args.column,
                                  OwnLiteral(uq_args.updated_value),
                                  OwnLiteral(uq_args.old_value))

\* C29: an operation of a warehouse or SQL Server connector that raises
\* leaves the connector's query_counter and its stored df_query / df_table /
\* df_view attributes as they were before the call.
C29_RaiseLeavesConnectorAsItWas ==
    [][(/\ calls' = calls + 1
        /\ last'.fn \in {"bigquery_pipeline", "sqlserver_pipeline",
                         "SQLServerConnection"}
        /\ last'.outcome = "raise"
        /\ last'.obj \in 1..Len(heap))
       => /\ heap'[last'.obj].query_counter = heap[last'.obj].query_counter
          /\ heap'[last'.obj].attrs = heap[last'.obj].attrs]_vars

\* The registry slot of a pipeline function.
SlotOf(fn) ==
    IF fn = "manipulate_sqlite_db" THEN "sqlite_connector" ELSE "gcp_connector"

\* C30: with Connectors.persistent true and a connector in the slot,
\* manipulate_sqlite_db and bigquery_pipeline take the stored connector
\* whatever connection arguments the call was given: nothing is built, no
\* engine is created, no authentication is run, and the operation uses the
\* stored connector's engine, project and client.
C30_PersistentIgnoresConnectionArguments ==
    [][(/\ calls' = calls + 1
        /\ last'.fn \in {"manipulate_sqlite_db", "bigquery_pipeline"}
        /\ persistent
        /\ slots[SlotOf(last'.fn)].kind = "object")
       => LET id == slots[SlotOf(last'.fn)].id
          IN  /\ last'.built = 0
              /\ last'.obj = id
              /\ Len(heap') = Len(heap)
              /\ heap'[id].engine = heap[id].engine
              /\ heap'[id].project = heap[id].project
              /\ heap'[id].dataset = heap[id].dataset
              /\ heap'[id].bqclient = heap[id].bqclient
              /\ heap'[id].bqstorageclient = heap[id].bqstorageclient
              /\ (last'.fn = "manipulate_sqlite_db" /\ last'.outcome = "ok"
                    /\ last'.action = "fetch_table")
                  => last'.engine = heap[id].engine]_vars

\* A second fetch_table through manipulate_sqlite_db read with the engine
\* the first call created, on the connector the first call stored.
C30_Witness ==
    /\ last.fn = "manipulate_sqlite_db"
    /\ last.action = "fetch_table"
    /\ last.outcome = "ok"
    /\ last.persistent
    /\ last.built = 0
    /\ prev.successful
    /\ prev.fn = "manipulate_sqlite_db"
    /\ prev.built = 1
    /\ last.obj = prev.obj
    /\ last.engine = prev.engine
    /\ last.engine # 0
    /\ Len(heap) = 2

====
